---------------------------- MODULE Spec2Model ----------------------------
(***************************************************************************)
(* A model of the 2D rigid-body simulator (AdvancedRigidBodies): the       *)
(* RigidBody integration and boundary handling, the SpatialGrid broad      *)
(* phase and the PhysicsEngine step with its narrow-phase resolution.      *)
(*                                                                         *)
(* Numbers.  The program computes with 32-bit floats.  The model computes  *)
(* in fixed point: a float value v is the integer v * Scale, one unit is   *)
(* 0.0001.  Every product and quotient is rounded to the nearest unit, as  *)
(* a float operation rounds to the nearest float.  Products are split so   *)
(* that no intermediate value leaves the 32-bit integers of TLC.           *)
(***************************************************************************)
EXTENDS Integers, Sequences, FiniteSets, TLC

VARIABLES
    bodies,               \* PhysicsEngine::bodies, in insertion order
    gravity,              \* PhysicsEngine::gravity
    grid,                 \* PhysicsEngine::spatialGrid (cellSize, gridWidth, gridHeight, cells)
    potentialCollisions,  \* the local of PhysicsEngine::update holding the candidate pairs
    pc,                   \* position inside PhysicsEngine::update ("idle" outside it)
    pairIdx,              \* index of the next candidate pair of the narrow-phase loop
    dt,                   \* deltaTime of the update in progress
    stepCount,            \* number of update calls started
    addCount,             \* number of addBody calls made
    lastOp,               \* name of the last operation of the engine's interface
    prevBodies,           \* the collection as it was before the last operation
    lastCollision,        \* what the last checkCollision call computed
    hit,                  \* argument and result of the last getBodyAt call
    world,                \* PhysicsEngine::worldWidth and worldHeight
    bursts,               \* intensities of the createImpactBurst calls of the update in progress
    twin,                 \* the collection of a second engine stepped beside the first
    resolved,             \* pairs of addresses checkCollision found overlapping in the update in progress
    app,                  \* the locals of main: ui, draggedBody, dragOffset, gravityOn
    particleSystem        \* ParticleSystem::particles and what the last burst asked for

vars == <<bodies, gravity, grid, potentialCollisions, pc, pairIdx, dt,
          stepCount, addCount, lastOp, prevBodies, lastCollision, hit,
          world, bursts, twin, resolved, app, particleSystem>>

---------------------------------------------------------------------------
(* Fixed-point arithmetic                                                  *)

Scale == 10000

Abs(a) == IF a < 0 THEN -a ELSE a

Sign(a) == IF a < 0 THEN -1 ELSE 1

Min(a, b) == IF a < b THEN a ELSE b

Max(a, b) == IF a > b THEN a ELSE b

\* n / d rounded to the nearest integer, for n >= 0 and d > 0
RoundDivPos(n, d) == (n \div d) + (IF 2 * (n % d) >= d THEN 1 ELSE 0)

\* float a * b
Mul(a, b) ==
    LET A  == Abs(a)
        B  == Abs(b)
        qa == A \div Scale
        ra == A % Scale
        qb == B \div Scale
        rb == B % Scale
    IN  Sign(a) * Sign(b) *
          (qa * qb * Scale + qa * rb + ra * qb + RoundDivPos(ra * rb, Scale))

RECURSIVE Fraction(_, _, _, _)
\* the decimal digits of r / d (0 <= r < d), k more to produce, q so far:
\* the quotient in units (Scale is 10^4, four digits), rounded to nearest
Fraction(r, d, k, q) ==
    IF k = 0 THEN q + (IF 2 * r >= d THEN 1 ELSE 0)
    ELSE Fraction((10 * r) % d, d, k - 1, 10 * q + ((10 * r) \div d))

\* float a / b, for b # 0
Div(a, b) ==
    LET A == Abs(a)
        B == Abs(b)
    IN  Sign(a) * Sign(b) * ((A \div B) * Scale + Fraction(A % B, B, 4, 0))

RECURSIVE SqrtSearch(_, _, _)
\* the largest r in lo..hi with r * r <= n
SqrtSearch(n, lo, hi) ==
    IF lo >= hi THEN lo
    ELSE LET mid == (lo + hi + 1) \div 2
         IN  IF mid * mid <= n THEN SqrtSearch(n, mid, hi)
                               ELSE SqrtSearch(n, lo, mid - 1)

\* std::sqrt of an integer, rounded to the nearest integer
ISqrt(n) ==
    LET r == SqrtSearch(n, 0, 46340)
    IN  IF n - r * r > r THEN r + 1 ELSE r

---------------------------------------------------------------------------
(* Vector2Utils.hpp (PhysicsUtils): length, normalise, dot, cross          *)

VAdd(a, b) == <<a[1] + b[1], a[2] + b[2]>>

VSub(a, b) == <<a[1] - b[1], a[2] - b[2]>>

VNeg(a) == <<-a[1], -a[2]>>

\* vector * float
VScale(a, k) == <<Mul(a[1], k), Mul(a[2], k)>>

\* vector / float
VDiv(a, k) == <<Div(a[1], k), Div(a[2], k)>>

RECURSIVE Hypot(_, _)
\* sqrt(x * x + y * y) for x, y >= 0.  Components above 30000 are first
\* divided by 10 (their squares leave the integers of TLC), which
\* keeps four significant digits: every vector the narrow phase normalises
\* or compares with a sum of radii is below that and is computed exactly.
Hypot(x, y) ==
    IF x <= 30000 /\ y <= 30000
    THEN ISqrt(x * x + y * y)
    ELSE 10 * Hypot(RoundDivPos(x, 10), RoundDivPos(y, 10))

length(v) == Hypot(Abs(v[1]), Abs(v[2]))

normalise(v) == VDiv(v, length(v))

dot(a, b) == Mul(a[1], b[1]) + Mul(a[2], b[2])

cross(a, b) == Mul(a[1], b[2]) - Mul(a[2], b[1])

\* the float literal written as n / d in the source (0.99f is F(99, 100))
F(n, d) == RoundDivPos(n * Scale, d)

---------------------------------------------------------------------------
(* RigidBody                                                               *)

\* RigidBody::RigidBody; addr is the address the allocation returned
RigidBody(addr, pos, r, m, stat) ==
    [ addr                |-> addr,
      position            |-> pos,
      radius              |-> r,
      mass                |-> m,
      isStatic            |-> stat,
      velocity            |-> <<0, 0>>,
      acceleration        |-> <<0, 0>>,
      rotation            |-> 0,
      angularVelocity     |-> 0,
      angularAcceleration |-> 0,
      restitution         |-> F(6, 10),
      friction            |-> 0,
      appliedForce        |-> <<0, 0>>,
      inertia             |-> Mul(Mul(Mul(F(5, 10), m), r), r),
      trailTimer          |-> 0,
      motionTrail         |-> <<>>,
      collisionInfos      |-> <<>> ]

\* RigidBody::applyForce
applyForce(b, force) ==
    IF ~b.isStatic
    THEN [b EXCEPT !.acceleration = VAdd(b.acceleration, VDiv(force, b.mass)),
                   !.appliedForce = force]
    ELSE b

MAX_TRAIL_LENGTH == 30

TRAIL_UPDATE_INTERVAL == F(5, 100)

\* a push at the front of the trail that never drops a point
PushTrailUnbounded(trail, position) ==
    <<[position |-> position, alpha |-> Scale]>> \o trail

\* motionTrail.push_front({position, 1.0f}), then pop_back if the trail is
\* longer than MAX_TRAIL_LENGTH
PushTrail(trail, position) ==
    LET pushed == <<[position |-> position, alpha |-> Scale]>> \o trail
    IN  IF Len(pushed) > MAX_TRAIL_LENGTH
        THEN SubSeq(pushed, 1, Len(pushed) - 1)
        ELSE pushed

\* the trail part of RigidBody::update: the timer and the trail after it,
\* every point faded by 0.95
TrailStep(b, position, deltaTime) ==
    LET timer == b.trailTimer + deltaTime
        trail == IF timer >= TRAIL_UPDATE_INTERVAL
                 THEN PushTrail(b.motionTrail, position)
                 ELSE b.motionTrail
    IN  [ trailTimer  |-> IF timer >= TRAIL_UPDATE_INTERVAL THEN 0 ELSE timer,
          motionTrail |-> [k \in DOMAIN trail |->
                              [trail[k] EXCEPT !.alpha = Mul(@, F(95, 100))]] ]

\* the integration without the reset of the angular velocity
updateKeepSpin(b, deltaTime) ==
    IF ~b.isStatic
    THEN LET v1 == VAdd(b.velocity, VScale(b.acceleration, deltaTime))
             p1 == VAdd(b.position, VScale(v1, deltaTime))
         IN  [b EXCEPT !.velocity = VScale(v1, F(99, 100)),
                       !.position = p1,
                       !.rotation = 0,
                       !.angularAcceleration = 0,
                       !.trailTimer = TrailStep(b, p1, deltaTime).trailTimer,
                       !.motionTrail = TrailStep(b, p1, deltaTime).motionTrail,
                       !.acceleration = <<0, 0>>,
                       !.appliedForce = <<0, 0>>]
    ELSE b

\* RigidBody::update
update(b, deltaTime) ==
    IF ~b.isStatic
    THEN LET v1 == VAdd(b.velocity, VScale(b.acceleration, deltaTime))
             p1 == VAdd(b.position, VScale(v1, deltaTime))
         IN  [b EXCEPT !.velocity = VScale(v1, F(99, 100)),
                       !.position = p1,
                       !.rotation = 0,
                       !.angularVelocity = 0,
                       !.angularAcceleration = 0,
                       !.trailTimer = TrailStep(b, p1, deltaTime).trailTimer,
                       !.motionTrail = TrailStep(b, p1, deltaTime).motionTrail,
                       !.acceleration = <<0, 0>>,
                       !.appliedForce = <<0, 0>>]
    ELSE b

\* RigidBody::addCollisionInfo
addCollisionInfo(b, point, normal, penetration) ==
    [b EXCEPT !.collisionInfos =
        Append(@, [contactPoint |-> point, normal |-> normal,
                   penetration |-> penetration, lifetime |-> Scale])]

\* a removal that keeps the records whose lifetime is exactly 0
InfoExpiredStrictly(info) == info.lifetime < 0

\* the test of the remove_if in RigidBody::updateCollisionInfo
InfoExpired(info) == info.lifetime <= 0

\* the lifetimes lowered by deltaTime * 2.0f
InfosAged(infos, deltaTime) ==
    [k \in DOMAIN infos |->
        [infos[k] EXCEPT !.lifetime = @ - Mul(deltaTime, 2 * Scale)]]

\* the records the predicate does not select
RECURSIVE RemoveInfos(_, _)
RemoveInfos(infos, k) ==
    IF k > Len(infos) THEN <<>>
    ELSE IF InfoExpired(infos[k]) THEN RemoveInfos(infos, k + 1)
    ELSE <<infos[k]>> \o RemoveInfos(infos, k + 1)

\* RigidBody::updateCollisionInfo
updateCollisionInfo(b, deltaTime) ==
    [b EXCEPT !.collisionInfos = RemoveInfos(InfosAged(b.collisionInfos, deltaTime), 1)]

\* One wall test of RigidBody::checkBoundaryCollision on the axis ax
\* (1 = x, 2 = y): crossed is the test of the if, clampTo the position the
\* body is put at.
WallHit(b, ax, crossed, clampTo) ==
    IF crossed
    THEN LET other == 3 - ax
             oneMinusFriction == Scale - b.friction
         IN  [b EXCEPT !.position[ax] = clampTo,
                       !.velocity[ax] = Mul(-b.velocity[ax], b.restitution),
                       !.velocity[other] = Mul(b.velocity[other], oneMinusFriction),
                       !.angularVelocity = Mul(b.angularVelocity, oneMinusFriction)]
    ELSE b

\* the four wall tests of RigidBody::checkBoundaryCollision
WallLeft(b) == WallHit(b, 1, b.position[1] - b.radius < 0, b.radius)

WallRight(b, width) == WallHit(b, 1, b.position[1] + b.radius > width, width - b.radius)

\* the top wall with the centre put on the wall
WallTopEdge(b) == WallHit(b, 2, b.position[2] - b.radius < 0, 0)

WallTop(b) == WallHit(b, 2, b.position[2] - b.radius < 0, b.radius)

\* the bottom wall with the velocity reflected at full size
WallBottomElastic(b, height) ==
    IF b.position[2] + b.radius > height
    THEN [b EXCEPT !.position[2] = height - b.radius,
                   !.velocity[2] = -b.velocity[2],
                   !.velocity[1] = Mul(b.velocity[1], Scale - b.friction),
                   !.angularVelocity = Mul(b.angularVelocity, Scale - b.friction)]
    ELSE b

WallBottom(b, height) == WallHit(b, 2, b.position[2] + b.radius > height, height - b.radius)

\* RigidBody::checkBoundaryCollision: the four walls in the order of the source
checkBoundaryCollision(b, width, height) ==
    IF ~b.isStatic
    THEN WallBottom(WallTop(WallRight(WallLeft(b), width)), height)
    ELSE b

---------------------------------------------------------------------------
(* PhysicsEngine::checkCollision (narrow phase)                            *)

\* the branch taken when the centres are closer than 0.001f: the distance
\* and the difference vector the rest of the function goes on with
Degenerate(diff, distance, minDistance) ==
    IF distance < F(1, 1000)
    THEN [distance |-> F(1, 1000), diff |-> VScale(<<Scale, 0>>, minDistance)]
    ELSE [distance |-> distance, diff |-> diff]

\* STEP 3 without the tests on isStatic: the overlap is always split in two
PositionCorrectionSplit(body1, body2, normal, overlap) ==
    LET separationFactor == F(101, 100)
        half == Mul(Mul(overlap, F(5, 10)), separationFactor)
    IN  <<VSub(body1.position, VScale(normal, half)),
          VAdd(body2.position, VScale(normal, half))>>

\* STEP 3 with every dynamic body moved by half the overlap
PositionCorrectionEven(body1, body2, normal, overlap) ==
    LET separationFactor == F(101, 100)
        half == Mul(Mul(overlap, F(5, 10)), separationFactor)
    IN  <<IF ~body1.isStatic THEN VSub(body1.position, VScale(normal, half))
                             ELSE body1.position,
          IF ~body2.isStatic THEN VAdd(body2.position, VScale(normal, half))
                             ELSE body2.position>>

\* STEP 3, position correction: the two positions after it
PositionCorrection(body1, body2, normal, overlap) ==
    LET separationFactor == F(101, 100)
        half == Mul(Mul(overlap, F(5, 10)), separationFactor)
        full == Mul(overlap, separationFactor)
    IN  IF ~body1.isStatic /\ ~body2.isStatic
        THEN <<VSub(body1.position, VScale(normal, half)),
               VAdd(body2.position, VScale(normal, half))>>
        ELSE IF ~body1.isStatic
        THEN <<VSub(body1.position, VScale(normal, full)), body2.position>>
        ELSE IF ~body2.isStatic
        THEN <<body1.position, VAdd(body2.position, VScale(normal, full))>>
        ELSE <<body1.position, body2.position>>

\* STEP 4: velocity of the body at the contact point, r from centre to contact
ContactVelocity(b, r) ==
    VAdd(b.velocity, <<Mul(-b.angularVelocity, r[2]), Mul(b.angularVelocity, r[1])>>)

\* 1/m1 + 1/m2 over the dynamic bodies
InvMassSum(body1, body2) ==
    (IF ~body1.isStatic THEN Div(Scale, body1.mass) ELSE 0)
  + (IF ~body2.isStatic THEN Div(Scale, body2.mass) ELSE 0)

\* (r x n)^2 / I over the dynamic bodies
InvInertiaSum(body1, body2, r1CrossN, r2CrossN) ==
    (IF ~body1.isStatic THEN Div(Mul(r1CrossN, r1CrossN), body1.inertia) ELSE 0)
  + (IF ~body2.isStatic THEN Div(Mul(r2CrossN, r2CrossN), body2.inertia) ELSE 0)

\* an impulse added to the body whatever the side it is on
ApplyImpulseOneSided(b, imp, r, sgn) ==
    IF ~b.isStatic
    THEN [b EXCEPT !.velocity = VAdd(b.velocity, VDiv(imp, b.mass)),
                   !.angularVelocity = b.angularVelocity + Div(cross(r, imp), b.inertia)]
    ELSE b

\* STEP 6 and the end of STEP 7: body b takes sgn * imp at offset r
ApplyImpulse(b, imp, r, sgn) ==
    IF ~b.isStatic
    THEN [b EXCEPT !.velocity = IF sgn = 1 THEN VAdd(b.velocity, VDiv(imp, b.mass))
                                              ELSE VSub(b.velocity, VDiv(imp, b.mass)),
                   !.angularVelocity =
                       b.angularVelocity + sgn * Div(cross(r, imp), b.inertia)]
    ELSE b

\* std::clamp(v, lo, hi)
Clamp(v, lo, hi) == IF v < lo THEN lo ELSE IF hi < v THEN hi ELSE v

\* STEP 7 without std::clamp
FrictionMagnitudeUnclamped(relativeVelocity, tangent, denom, j, frictionCoeff) ==
    Div(-dot(relativeVelocity, tangent), denom)

\* STEP 7: the tangential impulse magnitude after the Coulomb clamp
FrictionMagnitude(relativeVelocity, tangent, denom, j, frictionCoeff) ==
    LET jt0 == Div(-dot(relativeVelocity, tangent), denom)
        frictionLimit == Abs(Mul(j, frictionCoeff))
    IN  Clamp(jt0, -frictionLimit, frictionLimit)

\* What a call that found no overlap reports.  The record holds the two
\* bodies as the call leaves them (body1, body2) and the values the call
\* computed on the way; afterNormal is the pair as it stood between STEP 6
\* and STEP 7.
NoCollision(body1, body2) ==
    [ body1 |-> body1, body2 |-> body2, overlap |-> FALSE, separating |-> FALSE,
      impulse |-> FALSE, frictionApplied |-> FALSE, burst |-> FALSE, intensity |-> 0,
      minDistance |-> body1.radius + body2.radius,
      normal |-> <<0, 0>>, velocityAlongNormal |-> 0, j |-> 0, jt |-> 0,
      frictionCoeff |-> 0, afterNormal |-> <<body1, body2>> ]

\* STEP 7 applied: res is the outcome after STEP 6, (n1, n2) the bodies then
CollideFriction(res, r1, r2, tangent, jt, frictionCoeff) ==
    [res EXCEPT !.body1 = ApplyImpulse(res.body1, VScale(tangent, jt), r1, -1),
                !.body2 = ApplyImpulse(res.body2, VScale(tangent, jt), r2, 1),
                !.frictionApplied = TRUE, !.jt = jt, !.frictionCoeff = frictionCoeff]

\* STEP 7, the test on the tangential speed (denom = 0 is the call on two
\* static bodies, where the source computes with the result of a division
\* by 0.0f and changes no body; the engine never makes that call)
CollideTangent(res, r1, r2, relativeVelocity, tangent0, denom, frictionCoeff) ==
    IF ~(length(tangent0) > F(1, 1000)) \/ denom = 0 THEN res
    ELSE CollideFriction(res, r1, r2, normalise(tangent0),
             FrictionMagnitude(relativeVelocity, normalise(tangent0), denom, res.j,
                               frictionCoeff),
             frictionCoeff)

\* the intensity handed to createImpactBurst: std::min(1.0f, std::abs(j) /
\* 100.0f).  With denom = 0 (two static bodies) j is 0.0f / 0.0f, not a
\* number, every comparison with it is false and std::min returns 1.0f.
ImpactIntensity(j, denom) ==
    IF denom = 0 THEN Scale ELSE Min(Scale, Div(Abs(j), 100 * Scale))

\* createImpactBurst called, STEP 6 applied, then STEP 7
CollideApply(base, c1, c2, r1, r2, relativeVelocity, denom, j) ==
    CollideTangent(
        [base EXCEPT !.body1 = ApplyImpulse(c1, VScale(base.normal, j), r1, -1),
                     !.body2 = ApplyImpulse(c2, VScale(base.normal, j), r2, 1),
                     !.impulse = TRUE, !.j = j,
                     !.burst = TRUE, !.intensity = ImpactIntensity(j, denom),
                     !.afterNormal = <<ApplyImpulse(c1, VScale(base.normal, j), r1, -1),
                                       ApplyImpulse(c2, VScale(base.normal, j), r2, 1)>>],
        r1, r2, relativeVelocity,
        VSub(relativeVelocity, VScale(base.normal, base.velocityAlongNormal)),
        denom,
        Mul(c1.friction + c2.friction, F(5, 10)))

\* STEP 5 with the factor 1 in place of 1 + e
ImpulseMagnitudeInelastic(e, velocityAlongNormal, denom) ==
    IF denom = 0 THEN 0 ELSE Div(-velocityAlongNormal, denom)

\* STEP 5: the impulse magnitude j
ImpulseMagnitude(e, velocityAlongNormal, denom) ==
    IF denom = 0 THEN 0 ELSE Div(Mul(-(Scale + e), velocityAlongNormal), denom)

\* STEP 5 reached without the early exit
CollideImpulseAlways(base, c1, c2, r1, r2, relativeVelocity, denom) ==
    CollideApply(base, c1, c2, r1, r2, relativeVelocity, denom,
        ImpulseMagnitude(Min(c1.restitution, c2.restitution),
                         base.velocityAlongNormal, denom))

\* the early exit on a separating pair, then STEP 5
CollideImpulse(base, c1, c2, r1, r2, relativeVelocity, denom) ==
    IF base.velocityAlongNormal > 0 THEN [base EXCEPT !.separating = TRUE]
    ELSE CollideApply(base, c1, c2, r1, r2, relativeVelocity, denom,
             ImpulseMagnitude(Min(c1.restitution, c2.restitution),
                              base.velocityAlongNormal, denom))

\* STEP 4: the relative velocity at the contact point
CollideVelocity(c1, c2, normal, r1, r2, relativeVelocity) ==
    CollideImpulse(
        [NoCollision(c1, c2) EXCEPT !.overlap = TRUE, !.normal = normal,
             !.velocityAlongNormal = dot(relativeVelocity, normal)],
        c1, c2, r1, r2, relativeVelocity,
        InvMassSum(c1, c2)
          + InvInertiaSum(c1, c2, cross(r1, normal), cross(r2, normal)))

\* the bodies after STEP 3 and their offsets to the contact point
CollideContact(c1, c2, normal, contactPoint) ==
    CollideVelocity(c1, c2, normal,
        VSub(contactPoint, c1.position), VSub(contactPoint, c2.position),
        VSub(ContactVelocity(c2, VSub(contactPoint, c2.position)),
             ContactVelocity(c1, VSub(contactPoint, c1.position))))

\* STEP 2 and STEP 3: contact point and position correction
CollideGeometry(body1, body2, normal, overlap) ==
    CollideContact(
        [addCollisionInfo(body1, VAdd(body1.position, VScale(normal, body1.radius)),
                          <<-normal[1], -normal[2]>>, overlap)
            EXCEPT !.position = PositionCorrection(body1, body2, normal, overlap)[1]],
        [addCollisionInfo(body2, VAdd(body1.position, VScale(normal, body1.radius)),
                          normal, overlap)
            EXCEPT !.position = PositionCorrection(body1, body2, normal, overlap)[2]],
        normal,
        VAdd(body1.position, VScale(normal, body1.radius)))

\* the overlapping pair: dg is what the degenerate-centres branch left
CollideOverlap(body1, body2, dg, minDistance) ==
    CollideGeometry(body1, body2, normalise(dg.diff), minDistance - dg.distance)

\* PhysicsEngine::checkCollision
checkCollision(body1, body2) ==
    IF ~(length(VSub(body2.position, body1.position)) < body1.radius + body2.radius)
    THEN NoCollision(body1, body2)
    ELSE CollideOverlap(body1, body2,
             Degenerate(VSub(body2.position, body1.position),
                        length(VSub(body2.position, body1.position)),
                        body1.radius + body2.radius),
             body1.radius + body2.radius)

---------------------------------------------------------------------------
(* SpatialGrid                                                             *)

\* static_cast<int>(x / cellSize): the quotient truncated toward zero
TruncDiv(x, d) == Sign(x) * (Abs(x) \div d)

\* static_cast<int>(std::ceil(w / cellSize)), for w >= 0
CeilDiv(w, d) == (w + d - 1) \div d

\* SpatialGrid::SpatialGrid: every cell empty
SpatialGrid(worldWidth, worldHeight, cellSize) ==
    LET gw == CeilDiv(worldWidth, cellSize)
        gh == CeilDiv(worldHeight, cellSize)
    IN  [ cellSize |-> cellSize, gridWidth |-> gw, gridHeight |-> gh,
          cells |-> [c \in 0 .. gw * gh - 1 |-> <<>>] ]

\* a clear that leaves the cells as they are
clearNothing(g) == g

\* SpatialGrid::clear
clear(g) == [g EXCEPT !.cells = [c \in DOMAIN g.cells |-> <<>>]]

\* the column of x without std::clamp
getCellXUnclamped(g, x) == TruncDiv(x, g.cellSize)

\* SpatialGrid::getCellX
getCellX(g, x) == Clamp(TruncDiv(x, g.cellSize), 0, g.gridWidth - 1)

\* SpatialGrid::getCellY
getCellY(g, y) == Clamp(TruncDiv(y, g.cellSize), 0, g.gridHeight - 1)

\* SpatialGrid::getCellIndex
getCellIndex(g, cellX, cellY) == cellY * g.gridWidth + cellX

\* SpatialGrid::getCellsForBody: the indices in the order the loops push them
getCellsForBody(g, b) ==
    LET minCellX == getCellX(g, b.position[1] - b.radius)
        maxCellX == getCellX(g, b.position[1] + b.radius)
        minCellY == getCellY(g, b.position[2] - b.radius)
        maxCellY == getCellY(g, b.position[2] + b.radius)
        w        == maxCellX - minCellX + 1
        h        == maxCellY - minCellY + 1
    IN  [k \in 1 .. w * h |->
            getCellIndex(g, minCellX + ((k - 1) % w), minCellY + ((k - 1) \div w))]

RECURSIVE PushInto(_, _, _, _)
\* the loop of SpatialGrid::insert from the k-th index on
PushInto(cells, indices, k, addr) ==
    IF k > Len(indices) THEN cells
    ELSE PushInto([cells EXCEPT ![indices[k]] = Append(@, addr)], indices, k + 1, addr)

\* SpatialGrid::insert: the cell holds the body's address
insert(g, b) == [g EXCEPT !.cells = PushInto(g.cells, getCellsForBody(g, b), 1, b.addr)]

RECURSIVE InsertAll(_, _, _)
\* the loop of PhysicsEngine::updateSpatialGrid from the k-th body on
InsertAll(g, bs, k) ==
    IF k > Len(bs) THEN g ELSE InsertAll(insert(g, bs[k]), bs, k + 1)

\* the bodies inserted into a grid that was not cleared
updateSpatialGridNoClear(g, bs) == InsertAll(g, bs, 1)

\* PhysicsEngine::updateSpatialGrid
updateSpatialGrid(g, bs) == InsertAll(clear(g), bs, 1)

RECURSIVE Xor(_, _)
\* a ^ b on size_t
Xor(a, b) ==
    IF a = 0 THEN b
    ELSE IF b = 0 THEN a
    ELSE (((a % 2) + (b % 2)) % 2) + 2 * Xor(a \div 2, b \div 2)

\* the hash getPotentialCollisions gives the pair of pointers
PairHash(body1, body2) ==
    IF body1 < body2 THEN Xor(body1, body2 * 2) ELSE Xor(body2, body1 * 2)

RECURSIVE CellPairsFrom(_, _, _)
\* the two nested loops over one cell, from (i, j) on
CellPairsFrom(cellBodies, i, j) ==
    IF i > Len(cellBodies) THEN <<>>
    ELSE IF j > Len(cellBodies) THEN CellPairsFrom(cellBodies, i + 1, i + 2)
    ELSE <<<<cellBodies[i], cellBodies[j]>>>> \o CellPairsFrom(cellBodies, i, j + 1)

\* the pairs (bodies[i], bodies[j]), i < j, of one cell
CellPairs(cellBodies) == CellPairsFrom(cellBodies, 1, 2)

RECURSIVE AllCellPairs(_, _)
\* the pairs of every cell from cell c on, in the order of the outer loop
AllCellPairs(cells, c) ==
    IF c \notin DOMAIN cells THEN <<>>
    ELSE CellPairs(cells[c]) \o AllCellPairs(cells, c + 1)

\* the enumerated pairs with no test on processedPairs
KeepAll(enumerated, k, processedPairs, pairs) == enumerated

RECURSIVE KeepUnprocessed(_, _, _, _)
\* the test on processedPairs, applied to the enumerated pairs from k on
KeepUnprocessed(enumerated, k, processedPairs, pairs) ==
    IF k > Len(enumerated) THEN pairs
    ELSE LET hash == PairHash(enumerated[k][1], enumerated[k][2])
         IN  IF hash \notin processedPairs
             THEN KeepUnprocessed(enumerated, k + 1, processedPairs \cup {hash},
                                  Append(pairs, enumerated[k]))
             ELSE KeepUnprocessed(enumerated, k + 1, processedPairs, pairs)

\* SpatialGrid::getPotentialCollisions
getPotentialCollisions(g) == KeepUnprocessed(AllCellPairs(g.cells, 0), 1, {}, <<>>)

---------------------------------------------------------------------------
(* PhysicsEngine                                                           *)

\* PhysicsEngine physics(1200.0f, 800.0f) of main, and the cell size and
\* the gravity the constructor sets
WorldWidth == 1200 * Scale

WorldHeight == 800 * Scale

CellSize == 100 * Scale

DefaultGravity == <<0, 500 * Scale>>

\* the null pointer
NULL == 0

RECURSIVE RemoveIfStatic(_, _, _)
\* the same sweep with the predicate getIsStatic()
RemoveIfStatic(bs, k, kept) ==
    IF k > Len(bs) THEN kept
    ELSE IF bs[k].isStatic THEN RemoveIfStatic(bs, k + 1, kept)
    ELSE RemoveIfStatic(bs, k + 1, Append(kept, bs[k]))

RECURSIVE RemoveIfDynamic(_, _, _)
\* std::remove_if over bodies with the predicate !getIsStatic(), followed by
\* the erase of the tail: kept holds the elements moved to the front so far
RemoveIfDynamic(bs, k, kept) ==
    IF k > Len(bs) THEN kept
    ELSE IF ~bs[k].isStatic THEN RemoveIfDynamic(bs, k + 1, kept)
    ELSE RemoveIfDynamic(bs, k + 1, Append(kept, bs[k]))

\* PhysicsEngine::clearDynamicBodies
clearDynamicBodies(bs) == RemoveIfDynamic(bs, 1, <<>>)

RECURSIVE CountIfDynamic(_, _)
\* std::count_if over bodies from the k-th on
CountIfDynamic(bs, k) ==
    IF k > Len(bs) THEN 0
    ELSE (IF ~bs[k].isStatic THEN 1 ELSE 0) + CountIfDynamic(bs, k + 1)

\* PhysicsEngine::getDynamicBodyCount
getDynamicBodyCount(bs) == CountIfDynamic(bs, 1)

\* the test with < in place of <=
ContainsStrictly(b, point) == length(VSub(b.position, point)) < b.radius

\* the test of the if in PhysicsEngine::getBodyAt
Contains(b, point) == length(VSub(b.position, point)) <= b.radius

RECURSIVE BodyAtFrom(_, _, _)
\* the loop of PhysicsEngine::getBodyAt from the k-th body on
BodyAtFrom(bs, point, k) ==
    IF k > Len(bs) THEN NULL
    ELSE IF Contains(bs[k], point) THEN bs[k].addr
    ELSE BodyAtFrom(bs, point, k + 1)

\* PhysicsEngine::getBodyAt
getBodyAt(bs, point) == BodyAtFrom(bs, point, 1)

\* the body a pointer refers to: its index in the collection
Deref(bs, addr) == CHOOSE i \in DOMAIN bs : bs[i].addr = addr

\* first loop of PhysicsEngine::update, one body
ForcesOn(b, g, deltaTime) ==
    updateCollisionInfo(IF ~b.isStatic THEN applyForce(b, VScale(g, b.mass)) ELSE b,
                        deltaTime)

\* second loop of PhysicsEngine::update, one body
IntegrateOn(b, deltaTime) ==
    checkBoundaryCollision(update(b, deltaTime), world.width, world.height)

RECURSIVE NarrowPhase(_, _, _)
\* third loop of PhysicsEngine::update from the k-th candidate pair on
NarrowPhase(bs, pairs, k) ==
    IF k > Len(pairs) THEN bs
    ELSE IF bs[Deref(bs, pairs[k][1])].isStatic /\ bs[Deref(bs, pairs[k][2])].isStatic
    THEN NarrowPhase(bs, pairs, k + 1)
    ELSE NarrowPhase(
             [bs EXCEPT
                 ![Deref(bs, pairs[k][1])] =
                     checkCollision(bs[Deref(bs, pairs[k][1])],
                                    bs[Deref(bs, pairs[k][2])]).body1,
                 ![Deref(bs, pairs[k][2])] =
                     checkCollision(bs[Deref(bs, pairs[k][1])],
                                    bs[Deref(bs, pairs[k][2])]).body2],
             pairs, k + 1)

\* the broad and the narrow phase of update on the bodies the second loop
\* left
CollideAll(g, moved) ==
    NarrowPhase(moved, getPotentialCollisions(updateSpatialGrid(g, moved)), 1)

\* PhysicsEngine::update as a whole: the collection it leaves
UpdateAll(bs, g, gr, deltaTime) ==
    CollideAll(gr, [i \in DOMAIN bs |-> IntegrateOn(ForcesOn(bs[i], g, deltaTime), deltaTime)])

---------------------------------------------------------------------------
(* UIControls and the locals of main                                       *)

\* sf::Rect::contains on the rectangle at (left, top) of the given size
RectContains(left, top, width, height, point) ==
    /\ point[1] >= left /\ point[1] < left + width
    /\ point[2] >= top /\ point[2] < top + height

\* UIControls::createSlider: the track starts at x and is 260 wide, the
\* handle is 12 by 20 and sits at x + ratio * 260 - 6, y + 22
createSlider(x, y, minVal, maxVal, initialVal) ==
    [ minValue     |-> minVal,
      maxValue     |-> maxVal,
      currentValue |-> initialVal,
      isDragging   |-> FALSE,
      x            |-> x,
      handleLeft   |-> x + Mul(Div(initialVal - minVal, maxVal - minVal), 260 * Scale)
                         - 6 * Scale,
      handleTop    |-> y + 22 * Scale ]

\* UIControls::updateSlider
updateSlider(slider, mousePos) ==
    LET width == 260 * Scale
        ratio == Clamp(Div(mousePos[1] - slider.x, width), 0, Scale)
    IN  [slider EXCEPT
            !.currentValue = slider.minValue
                               + Mul(ratio, slider.maxValue - slider.minValue),
            !.handleLeft = slider.x + Mul(ratio, width) - 6 * Scale]

\* slider.handle.getGlobalBounds().contains(mousePos): the handle with its
\* outline of thickness 1
HandleContains(slider, mousePos) ==
    RectContains(slider.handleLeft - Scale, slider.handleTop - Scale,
                 14 * Scale, 22 * Scale, mousePos)

\* UIControls::UIControls and the callbacks registered afterwards: main
\* registers onGravityChange
UIControls(hasRestitutionChange, hasFrictionChange) ==
    [ gravitySlider       |-> createSlider(20 * Scale, 60 * Scale, 0, 1000 * Scale, 500 * Scale),
      restitutionSlider   |-> createSlider(20 * Scale, 140 * Scale, 0, Scale, F(6, 10)),
      frictionSlider      |-> createSlider(20 * Scale, 220 * Scale, 0, Scale, F(3, 10)),
      gravityValue        |-> 500 * Scale,
      restitutionValue    |-> F(6, 10),
      frictionValue       |-> F(3, 10),
      onGravityChange     |-> TRUE,
      onRestitutionChange |-> hasRestitutionChange,
      onFrictionChange    |-> hasFrictionChange ]

\* the lambda checkSlider of UIControls::handleEvent
checkSlider(slider, mousePos) ==
    IF HandleContains(slider, mousePos) THEN [slider EXCEPT !.isDragging = TRUE] ELSE slider

\* UIControls::handleEvent on a press of the left mouse button
uiMousePressedLeft(ui, mousePos) ==
    [ui EXCEPT !.gravitySlider = checkSlider(@, mousePos),
               !.restitutionSlider = checkSlider(@, mousePos),
               !.frictionSlider = checkSlider(@, mousePos)]

\* UIControls::handleEvent on a button release
uiMouseReleased(ui) ==
    [ui EXCEPT !.gravitySlider.isDragging = FALSE,
               !.restitutionSlider.isDragging = FALSE,
               !.frictionSlider.isDragging = FALSE]

\* UIControls::handleEvent on a mouse move
uiMouseMoved(ui, pos) ==
    [ui EXCEPT !.gravitySlider = IF @.isDragging THEN updateSlider(@, pos) ELSE @,
               !.restitutionSlider = IF @.isDragging THEN updateSlider(@, pos) ELSE @,
               !.frictionSlider = IF @.isDragging THEN updateSlider(@, pos) ELSE @]

\* UIControls::isMouseOverUI: the panel at (10, 10) of size 300 by 650 with
\* its outline of thickness 2
isMouseOverUI(mousePos) ==
    RectContains(8 * Scale, 8 * Scale, 304 * Scale, 654 * Scale, mousePos)

\* the test of the first if of UIControls::update: onGravityChange is called
GravityChanged(ui) ==
    ui.gravityValue # ui.gravitySlider.currentValue /\ ui.onGravityChange

\* one if of UIControls::update: the value afterwards
TakeOver(value, current, hasCallback) ==
    IF value # current /\ hasCallback THEN current ELSE value

\* UIControls::update: the three values afterwards
uiUpdate(ui) ==
    [ui EXCEPT
        !.gravityValue = TakeOver(@, ui.gravitySlider.currentValue, ui.onGravityChange),
        !.restitutionValue =
            TakeOver(@, ui.restitutionSlider.currentValue, ui.onRestitutionChange),
        !.frictionValue = TakeOver(@, ui.frictionSlider.currentValue, ui.onFrictionChange)]

\* the locals of main before the loop; deref is the handle the last
\* mouse-move event dereferenced, running is false once the process has
\* stopped, clicks and spaces count the events that added bodies
MainLocals(hasRestitutionChange, hasFrictionChange) ==
    [ ui          |-> UIControls(hasRestitutionChange, hasFrictionChange),
      draggedBody |-> NULL,
      dragOffset  |-> <<0, 0>>,
      gravityOn   |-> TRUE,
      deref       |-> NULL,
      running     |-> TRUE,
      clicks      |-> 0,
      spaces      |-> 0 ]

---------------------------------------------------------------------------
(* ParticleSystem                                                          *)

MAX_PARTICLES == 500

\* Particle::Particle
Particle(pos, vel, life, sz) ==
    [ position    |-> pos,
      velocity    |-> vel,
      lifetime    |-> life,
      maxLifetime |-> life,
      size        |-> sz ]

\* Particle::update
particleUpdate(p, deltaTime) ==
    [p EXCEPT !.position = VAdd(p.position, VScale(p.velocity, deltaTime)),
              !.lifetime = p.lifetime - deltaTime,
              !.velocity = VScale(p.velocity, F(98, 100))]

\* Particle::isDead
isDead(p) == p.lifetime <= 0

\* the draws of speedDist and sizeDist; the draw of angleDist is 0, so that
\* for a unit normal (cos(angle), sin(angle)) is the normal
DrawnSpeed == 100 * Scale

DrawnSize == 2 * Scale

\* the particle count a burst of this intensity asks for
BurstCount(intensity) == Clamp(Mul(intensity, 20 * Scale) \div Scale, 5, 30)

\* the particles one burst emplaces
BurstParticles(particleCount, position, normal, intensity) ==
    [i \in 1 .. particleCount |->
        Particle(position, VScale(normal, Mul(DrawnSpeed, intensity)),
                 F(3, 10) + Mul(intensity, F(2, 10)), DrawnSize)]

\* createImpactBurst without the reduction to the remaining capacity
createImpactBurstUnreduced(particles, position, normal, intensity) ==
    IF Len(particles) >= MAX_PARTICLES THEN particles
    ELSE particles \o BurstParticles(BurstCount(intensity), position, normal, intensity)

\* ParticleSystem::createImpactBurst: the vector afterwards
createImpactBurst(particles, position, normal, intensity) ==
    IF Len(particles) >= MAX_PARTICLES THEN particles
    ELSE LET remainingCapacity == MAX_PARTICLES - Len(particles)
             particleCount == IF remainingCapacity < BurstCount(intensity)
                              THEN remainingCapacity
                              ELSE BurstCount(intensity)
         IN  particles \o BurstParticles(particleCount, position, normal, intensity)

\* ParticleSystem::update: the vector afterwards
particlesUpdate(particles, deltaTime) ==
    SelectSeq([i \in DOMAIN particles |-> particleUpdate(particles[i], deltaTime)],
              LAMBDA p : ~isDead(p))

\* a ParticleSystem after construction; sizeBefore and requested are the
\* size of the vector before the last createImpactBurst call and the particle
\* count that call asked for
ParticleSystem ==
    [ particles |-> <<>>, sizeBefore |-> 0, requested |-> 0 ]

---------------------------------------------------------------------------
(* The engine driven through its interface                                 *)

MaxBodies == 3

MaxSteps == 2

\* frame times handed to update
DtSet == {F(1, 60)}

\* gravity vectors handed to setGravity
GravitySet == {DefaultGravity, <<0, 0>>}

P(x, y) == <<x, y>>

\* bodies handed to addBody: the address the allocation returned (16-byte
\* aligned), position, radius, mass, static flag, and the restitution and
\* friction set on the body before the call
NewBodies ==
    { [addr |-> 768,  pos |-> P(1500000, 7985000), r |-> 10000, m |-> 10000,
       stat |-> FALSE, restitution |-> F(6, 10), friction |-> F(2, 10)],
      [addr |-> 1280, pos |-> P(1506000, 7992000), r |-> 10000, m |-> 20000,
       stat |-> FALSE, restitution |-> Scale, friction |-> F(5, 10)],
      [addr |-> 1536, pos |-> P(1500000, 7997000), r |-> 10000, m |-> 100000,
       stat |-> TRUE, restitution |-> F(6, 10), friction |-> 0],
      [addr |-> 2048, pos |-> P(1509000, 7997000), r |-> 5000, m |-> 100000,
       stat |-> TRUE, restitution |-> F(6, 10), friction |-> 0] }

\* points handed to getBodyAt
PointSet == {P(1503000, 7990000), P(1500000, 8007000), P(0, 0)}

NoCollisionYet == [overlap |-> FALSE]

NoHit == [point |-> <<0, 0>>, result |-> NULL, asked |-> FALSE]

\* the addresses of the live bodies
LiveAddrs(bs) == {bs[i].addr : i \in DOMAIN bs}

EngineInit ==
    /\ bodies = <<>>
    /\ gravity = DefaultGravity
    /\ grid = SpatialGrid(WorldWidth, WorldHeight, CellSize)
    /\ potentialCollisions = <<>>
    /\ pc = "idle"
    /\ pairIdx = 1
    /\ dt = 0
    /\ stepCount = 0
    /\ addCount = 0
    /\ lastOp = "init"
    /\ prevBodies = <<>>
    /\ lastCollision = NoCollisionYet
    /\ hit = NoHit
    /\ world = [width |-> WorldWidth, height |-> WorldHeight]
    /\ bursts = <<>>
    /\ twin = <<>>
    /\ resolved = {}
    /\ app = MainLocals(FALSE, FALSE)
    /\ particleSystem = ParticleSystem

\* PhysicsEngine::addBody of a body just constructed
AddBody(p) ==
    /\ pc = "idle"
    /\ addCount < MaxBodies
    /\ p.addr \notin LiveAddrs(bodies)
    /\ addCount' = addCount + 1
    /\ bodies' = Append(bodies, [RigidBody(p.addr, p.pos, p.r, p.m, p.stat)
                                   EXCEPT !.restitution = p.restitution,
                                          !.friction = p.friction])
    /\ prevBodies' = bodies
    /\ lastOp' = "addBody"
    /\ hit' = NoHit
    /\ UNCHANGED <<gravity, grid, potentialCollisions, pc, pairIdx, dt, stepCount,
                   lastCollision,
                   world, bursts, twin, resolved, app, particleSystem>>

ClearDynamicBodies ==
    /\ pc = "idle"
    /\ bodies' = clearDynamicBodies(bodies)
    /\ prevBodies' = bodies
    /\ lastOp' = "clearDynamicBodies"
    /\ hit' = NoHit
    /\ UNCHANGED <<gravity, grid, potentialCollisions, pc, pairIdx, dt, stepCount, addCount,
                   lastCollision,
                   world, bursts, twin, resolved, app, particleSystem>>

\* PhysicsEngine::setGravity
SetGravity(g) ==
    /\ pc = "idle"
    /\ g # gravity
    /\ gravity' = g
    /\ prevBodies' = bodies
    /\ lastOp' = "setGravity"
    /\ hit' = NoHit
    /\ UNCHANGED <<bodies, grid, potentialCollisions, pc, pairIdx, dt, stepCount, addCount,
                   lastCollision,
                   world, bursts, twin, resolved, app, particleSystem>>

GetBodyAt(point) ==
    /\ pc = "idle"
    /\ hit' = [point |-> point, result |-> getBodyAt(bodies, point), asked |-> TRUE]
    /\ prevBodies' = bodies
    /\ lastOp' = "getBodyAt"
    /\ UNCHANGED <<bodies, gravity, grid, potentialCollisions, pc, pairIdx, dt,
                   stepCount, addCount, lastCollision,
                   world, bursts, twin, resolved, app, particleSystem>>

\* PhysicsEngine::update, first loop: gravity on every non-static body
UpdateForces(deltaTime) ==
    /\ pc = "idle"
    /\ stepCount < MaxSteps
    /\ bodies' = [i \in DOMAIN bodies |-> ForcesOn(bodies[i], gravity, deltaTime)]
    /\ dt' = deltaTime
    /\ stepCount' = stepCount + 1
    /\ pc' = "integrate"
    /\ prevBodies' = bodies
    /\ lastOp' = "forces"
    /\ hit' = NoHit
    /\ bursts' = <<>>
    /\ resolved' = {}
    /\ UNCHANGED <<gravity, grid, potentialCollisions, pairIdx, addCount, lastCollision,
                   world, twin, app, particleSystem>>

\* PhysicsEngine::update, second loop: integration and the walls
UpdateIntegrate ==
    /\ pc = "integrate"
    /\ bodies' = [i \in DOMAIN bodies |-> IntegrateOn(bodies[i], dt)]
    /\ pc' = "broad"
    /\ prevBodies' = bodies
    /\ lastOp' = "integrate"
    /\ UNCHANGED <<gravity, grid, potentialCollisions, pairIdx, dt, stepCount, addCount,
                   lastCollision, hit,
                   world, bursts, twin, resolved, app, particleSystem>>

\* PhysicsEngine::update: updateSpatialGrid and getPotentialCollisions
UpdateBroadPhase ==
    /\ pc = "broad"
    /\ grid' = updateSpatialGrid(grid, bodies)
    /\ potentialCollisions' = getPotentialCollisions(grid')
    /\ pairIdx' = 1
    /\ pc' = "narrow"
    /\ prevBodies' = bodies
    /\ lastOp' = "broad"
    /\ UNCHANGED <<bodies, gravity, dt, stepCount, addCount, lastCollision, hit,
                   world, bursts, twin, resolved, app, particleSystem>>

\* PhysicsEngine::update, third loop: a pair of two static bodies is skipped
UpdateNarrowSkip ==
    /\ pc = "narrow"
    /\ pairIdx <= Len(potentialCollisions)
    /\ LET i1 == Deref(bodies, potentialCollisions[pairIdx][1])
           i2 == Deref(bodies, potentialCollisions[pairIdx][2])
       IN  bodies[i1].isStatic /\ bodies[i2].isStatic
    /\ pairIdx' = pairIdx + 1
    /\ prevBodies' = bodies
    /\ lastOp' = "skip"
    /\ UNCHANGED <<bodies, gravity, grid, potentialCollisions, pc, dt, stepCount, addCount,
                   lastCollision, hit,
                   world, bursts, twin, resolved, app, particleSystem>>

\* PhysicsEngine::update, third loop: checkCollision on the next pair
UpdateNarrowPhase ==
    /\ pc = "narrow"
    /\ pairIdx <= Len(potentialCollisions)
    /\ LET i1  == Deref(bodies, potentialCollisions[pairIdx][1])
           i2  == Deref(bodies, potentialCollisions[pairIdx][2])
           res == checkCollision(bodies[i1], bodies[i2])
       IN  /\ ~(bodies[i1].isStatic /\ bodies[i2].isStatic)
           /\ bodies' = [bodies EXCEPT ![i1] = res.body1, ![i2] = res.body2]
           /\ lastCollision' = res
           /\ bursts' = IF res.burst THEN Append(bursts, res.intensity) ELSE bursts
           /\ resolved' = IF res.overlap
                           THEN resolved \cup {potentialCollisions[pairIdx]}
                           ELSE resolved
    /\ pairIdx' = pairIdx + 1
    /\ prevBodies' = bodies
    /\ lastOp' = "checkCollision"
    /\ UNCHANGED <<gravity, grid, potentialCollisions, pc, dt, stepCount, addCount, hit,
                   world, twin, app, particleSystem>>

\* PhysicsEngine::update: the pairs are done, update returns
UpdateFinish ==
    /\ pc = "narrow"
    /\ pairIdx > Len(potentialCollisions)
    /\ pc' = "idle"
    /\ prevBodies' = bodies
    /\ lastOp' = "update"
    /\ UNCHANGED <<bodies, gravity, grid, potentialCollisions, pairIdx, dt, stepCount, addCount,
                   lastCollision, hit,
                   world, bursts, twin, resolved, app, particleSystem>>

Next ==
    \/ \E p \in NewBodies : AddBody(p)
    \/ ClearDynamicBodies
    \/ \E g \in GravitySet : SetGravity(g)
    \/ \E point \in PointSet : GetBodyAt(point)
    \/ \E deltaTime \in DtSet : UpdateForces(deltaTime)
    \/ UpdateIntegrate
    \/ UpdateBroadPhase
    \/ UpdateNarrowSkip
    \/ UpdateNarrowPhase
    \/ UpdateFinish

Spec == EngineInit /\ [][Next]_vars

---------------------------------------------------------------------------
(* checkCollision on its own: the narrow-phase loop of update on one        *)
(* candidate pair drawn from bounded sets                                  *)

\* centre of the first body, and the offsets of the second from it: exactly
\* and nearly coincident centres (closer than 0.001), axis-aligned and
\* oblique overlaps, and a pair too far apart to touch
CollideCentre == P(50000, 50000)

CollideOffsets ==
    { P(0, 0), P(-5, 0), P(0, 7), P(6000, 0), P(0, -8000), P(3000, 4000),
      P(-9000, 12000), P(19000, 1000), P(25000, 0) }

CollideRadii == {200, 10000}

CollideVelocities1 == {P(0, 0), P(30000, -20000), P(100000, 0)}

CollideVelocities2 == {P(0, 0), P(-100000, 50000), P(20000, 20000)}

CollideSpins == {0, 20000}

\* <<mass of the first, mass of the second>>
CollideMasses == {<<10000, 10000>>, <<30000, 30000>>, <<10000, 30000>>}

\* <<friction of the first, friction of the second>>
CollideFrictions == {<<0, 0>>, <<F(5, 10), Scale>>, <<F(2, 10), 0>>}

CollideRestitutions == {Scale, F(6, 10)}

\* <<first is static, second is static>>
CollideStatics == {<<FALSE, FALSE>>, <<TRUE, FALSE>>, <<FALSE, TRUE>>, <<TRUE, TRUE>>}

\* a body in the state a step can have left it in
BodyWith(addr, pos, r, m, stat, vel, spin, e, mu) ==
    [RigidBody(addr, pos, r, m, stat) EXCEPT
        !.velocity = IF stat THEN <<0, 0>> ELSE vel,
        !.angularVelocity = IF stat THEN 0 ELSE spin,
        !.restitution = e, !.friction = mu]

\* two bodies of mass 1, radius 10, restitution 1.0 and friction 0 that meet
\* head-on along x: centre of the first, gap between the centres, speed
HeadOnCentres == {P(0, 0), P(500000, 300000)}

HeadOnGaps == {190000, 150000, 100000, 199000}

HeadOnSpeeds == {100000, 10000, 250000}

HeadOnPairs ==
    { << BodyWith(768, c, 100000, Scale, FALSE, <<v, 0>>, 0, Scale, 0),
         BodyWith(1280, VAdd(c, <<gap, 0>>), 100000, Scale, FALSE, <<-v, 0>>, 0, Scale, 0) >> :
        c \in HeadOnCentres, gap \in HeadOnGaps, v \in HeadOnSpeeds }

\* two heavy bodies whose radii add up to less than 0.001 or to exactly
\* 0.001, with centres closer than 0.001
TinyRadii == {4, 5}

TinyOffsets == {P(0, 0), P(-5, 0), P(0, 7)}

TinyPairs ==
    { << BodyWith(768, CollideCentre, r, 1000 * Scale, st[1], va, 0, F(6, 10), 0),
         BodyWith(1280, VAdd(CollideCentre, off), r, 1000 * Scale, st[2], <<0, 0>>, 0,
                  Scale, 0) >> :
        r \in TinyRadii, off \in TinyOffsets, va \in {P(0, 0), P(30000, -20000)},
        st \in CollideStatics }

CollideInit ==
    /\ \/ \E off \in CollideOffsets, ra \in CollideRadii, rb \in CollideRadii,
             va \in CollideVelocities1, vb \in CollideVelocities2, w \in CollideSpins,
             ms \in CollideMasses, mus \in CollideFrictions, e \in CollideRestitutions,
             st \in CollideStatics :
             bodies = << BodyWith(768, CollideCentre, ra, ms[1], st[1], va, w, e, mus[1]),
                         BodyWith(1280, VAdd(CollideCentre, off), rb, ms[2], st[2], vb, 0,
                                  Scale, mus[2]) >>
       \/ bodies \in HeadOnPairs
       \/ bodies \in TinyPairs
    /\ gravity = DefaultGravity
    /\ grid = SpatialGrid(WorldWidth, WorldHeight, CellSize)
    /\ potentialCollisions = << <<768, 1280>> >>
    /\ pc = "narrow"
    /\ pairIdx = 1
    /\ dt = F(1, 60)
    /\ stepCount = 1
    /\ addCount = 2
    /\ lastOp = "init"
    /\ prevBodies = <<>>
    /\ lastCollision = NoCollisionYet
    /\ hit = NoHit
    /\ world = [width |-> WorldWidth, height |-> WorldHeight]
    /\ bursts = <<>>
    /\ twin = <<>>
    /\ resolved = {}
    /\ app = MainLocals(FALSE, FALSE)
    /\ particleSystem = ParticleSystem

\* checkCollision called on a pair of two static bodies, the call update
\* never makes
CheckCollisionStatics ==
    /\ pc = "narrow"
    /\ pairIdx <= Len(potentialCollisions)
    /\ LET i1  == Deref(bodies, potentialCollisions[pairIdx][1])
           i2  == Deref(bodies, potentialCollisions[pairIdx][2])
           res == checkCollision(bodies[i1], bodies[i2])
       IN  /\ bodies[i1].isStatic /\ bodies[i2].isStatic
           /\ bodies' = [bodies EXCEPT ![i1] = res.body1, ![i2] = res.body2]
           /\ lastCollision' = res
           /\ bursts' = IF res.burst THEN Append(bursts, res.intensity) ELSE bursts
           /\ resolved' = IF res.overlap
                           THEN resolved \cup {potentialCollisions[pairIdx]}
                           ELSE resolved
    /\ pairIdx' = pairIdx + 1
    /\ prevBodies' = bodies
    /\ lastOp' = "checkCollision"
    /\ UNCHANGED <<gravity, grid, potentialCollisions, pc, dt, stepCount, addCount, hit,
                   world, twin, app, particleSystem>>

\* the third loop of update on the one candidate pair, or checkCollision
\* called on it directly
CollideNext == UpdateNarrowSkip \/ UpdateNarrowPhase \/ CheckCollisionStatics

SpecCollide == CollideInit /\ [][CollideNext]_vars

\* a state right after a checkCollision call that found the pair overlapping
JustCollided == lastOp = "checkCollision" /\ lastCollision.overlap

\* distance between the centres of the two bodies of the last call
CentreDistance == length(VSub(lastCollision.body2.position, lastCollision.body1.position))

\* sum of mass * velocity over the pair
Momentum(b1, b2) == VAdd(VScale(b1.velocity, b1.mass), VScale(b2.velocity, b2.mass))

SameVelocities(a, b) ==
    /\ a.velocity = b.velocity
    /\ a.angularVelocity = b.angularVelocity

---------------------------------------------------------------------------
(* The broad phase on its own: updateSpatialGrid and                       *)
(* getPotentialCollisions on a collection drawn from bounded sets, for     *)
(* grids of several cell sizes                                             *)

GridBodyCount == 3

\* world width, world height and cell size handed to SpatialGrid::SpatialGrid:
\* cells smaller than the radii, cells of the size of the bodies, and a cell
\* size that does not divide the world
GridConfigs ==
    { [w |-> 40000, h |-> 30000, cell |-> 5000],
      [w |-> 40000, h |-> 30000, cell |-> 10000],
      [w |-> 40000, h |-> 30000, cell |-> 25000] }

\* centres, one of them left of the world rectangle
GridPositions == {P(9000, 9000), P(24000, 21000), P(-5000, 10000)}

GridRadii == {3000, 12000}

\* addresses of the bodies (16-byte aligned)
GridAddrs == {768, 1280, 1536, 2048}

GridBodies ==
    { RigidBody(a, pos, r, Scale, FALSE) :
        a \in GridAddrs, pos \in GridPositions, r \in GridRadii }

GridInit ==
    /\ bodies \in [1 .. GridBodyCount -> GridBodies]
    /\ \A i, k \in 1 .. GridBodyCount : i # k => bodies[i].addr # bodies[k].addr
    /\ \E c \in GridConfigs : grid = SpatialGrid(c.w, c.h, c.cell)
    /\ gravity = DefaultGravity
    /\ potentialCollisions = <<>>
    /\ pc = "broad"
    /\ pairIdx = 1
    /\ dt = F(1, 60)
    /\ stepCount = 1
    /\ addCount = GridBodyCount
    /\ lastOp = "init"
    /\ prevBodies = <<>>
    /\ lastCollision = NoCollisionYet
    /\ hit = NoHit
    /\ world = [width |-> WorldWidth, height |-> WorldHeight]
    /\ bursts = <<>>
    /\ twin = <<>>
    /\ resolved = {}
    /\ app = MainLocals(FALSE, FALSE)
    /\ particleSystem = ParticleSystem

GridNext == UpdateBroadPhase

SpecGrid == GridInit /\ [][GridNext]_vars

\* a state right after the grid was rebuilt and the candidate pairs fetched
JustFetched == lastOp = "broad"

\* the circles of the two bodies overlap
Overlapping(a, b) == length(VSub(b.position, a.position)) < a.radius + b.radius

\* the candidate list holds the pair of the two addresses, in either order
Listed(a, b) ==
    \E k \in DOMAIN potentialCollisions :
        potentialCollisions[k] = <<a, b>> \/ potentialCollisions[k] = <<b, a>>

\* the cells that hold both addresses
SharedCells(a, b) ==
    {c \in DOMAIN grid.cells :
        /\ \E k \in DOMAIN grid.cells[c] : grid.cells[c][k] = a
        /\ \E k \in DOMAIN grid.cells[c] : grid.cells[c][k] = b}

---------------------------------------------------------------------------
(* Construction on its own: bodies of any mass and radius handed to        *)
(* addBody                                                                 *)

AnyBodies ==
    { [addr |-> 768,  pos |-> P(1500000, 1000000), r |-> 10000, m |-> 10000,
       stat |-> FALSE, restitution |-> F(6, 10), friction |-> 0],
      [addr |-> 1280, pos |-> P(1506000, 1000000), r |-> 10000, m |-> 0,
       stat |-> FALSE, restitution |-> F(6, 10), friction |-> 0],
      [addr |-> 1536, pos |-> P(1500000, 1012000), r |-> 0, m |-> 10000,
       stat |-> FALSE, restitution |-> F(6, 10), friction |-> 0],
      [addr |-> 2048, pos |-> P(1509000, 1012000), r |-> -5000, m |-> 10000,
       stat |-> TRUE, restitution |-> F(6, 10), friction |-> 0],
      [addr |-> 2304, pos |-> P(1995000, 7995000), r |-> 10000, m |-> -10000,
       stat |-> FALSE, restitution |-> F(6, 10), friction |-> 0],
      [addr |-> 2560, pos |-> P(1995000, 7000000), r |-> 20000, m |-> 50000,
       stat |-> TRUE, restitution |-> F(6, 10), friction |-> 0] }

ConstructNext ==
    \/ \E p \in AnyBodies : AddBody(p)
    \/ ClearDynamicBodies

SpecConstruct == EngineInit /\ [][ConstructNext]_vars

---------------------------------------------------------------------------
(* Properties                                                              *)

\* the body as it was constructed: the template with the address of b
Constructed(b) == CHOOSE p \in NewBodies : p.addr = b.addr

\* C1: a static body keeps the position it was constructed at, a zero
\* velocity, a zero rotation and a zero angular velocity through every phase
\* of every update call, whatever it touches and whatever the gravity is.
StaticInvariance ==
    \A i \in DOMAIN bodies :
        bodies[i].isStatic =>
            /\ bodies[i].position = Constructed(bodies[i]).pos
            /\ bodies[i].velocity = <<0, 0>>
            /\ bodies[i].rotation = 0
            /\ bodies[i].angularVelocity = 0

\* the second update has just resolved an overlap of a static body with a
\* dynamic one by an impulse
StaticBodyWasHit ==
    /\ JustCollided
    /\ stepCount = 2
    /\ lastCollision.impulse
    /\ lastCollision.body1.isStatic \/ lastCollision.body2.isStatic
    /\ \E i \in DOMAIN bodies : bodies[i].position # prevBodies[i].position

\* C2: after the grid is rebuilt, every two bodies whose circles overlap are
\* a pair of the candidate list.
BroadPhaseComplete ==
    JustFetched =>
        \A i, k \in DOMAIN bodies :
            (i < k /\ Overlapping(bodies[i], bodies[k]))
                => Listed(bodies[i].addr, bodies[k].addr)

\* C3: the candidate list holds no unordered pair twice, however many cells
\* the two bodies share.
NoDuplicatePairs ==
    JustFetched =>
        \A k, l \in DOMAIN potentialCollisions :
            k # l =>
                {potentialCollisions[k][1], potentialCollisions[k][2]}
                    # {potentialCollisions[l][1], potentialCollisions[l][2]}

\* a listed pair whose bodies share more than one cell, beside a third body
\* that shares a cell with one of them
PairSharesCells ==
    /\ JustFetched
    /\ \E a, b \in LiveAddrs(bodies) :
          /\ a # b
          /\ Listed(a, b)
          /\ Cardinality(SharedCells(a, b)) >= 2
    /\ Len(potentialCollisions) >= 2

\* C4: right after checkCollision found a pair with at least one dynamic
\* body overlapping, the centres are at least the sum of the radii apart.
NonPenetration ==
    (JustCollided /\ ~(prevBodies[1].isStatic /\ prevBodies[2].isStatic))
        => CentreDistance >= lastCollision.minDistance

\* C5: a resolved collision of two dynamic bodies of equal mass and
\* restitution 1.0 leaves the sum of mass * velocity as it was.
MomentumConserved ==
    ( /\ JustCollided
      /\ ~prevBodies[1].isStatic /\ ~prevBodies[2].isStatic
      /\ prevBodies[1].mass = prevBodies[2].mass
      /\ prevBodies[1].restitution = Scale /\ prevBodies[2].restitution = Scale )
        => Momentum(bodies[1], bodies[2]) = Momentum(prevBodies[1], prevBodies[2])

\* a normal and a friction impulse have changed the velocities of two such
\* bodies
EqualMassImpulse ==
    /\ JustCollided
    /\ ~prevBodies[1].isStatic /\ ~prevBodies[2].isStatic
    /\ prevBodies[1].mass = prevBodies[2].mass
    /\ prevBodies[1].restitution = Scale /\ prevBodies[2].restitution = Scale
    /\ lastCollision.impulse
    /\ lastCollision.frictionApplied
    /\ lastCollision.jt # 0
    /\ bodies[1].velocity # prevBodies[1].velocity
    /\ bodies[2].velocity # prevBodies[2].velocity
    /\ Momentum(prevBodies[1], prevBodies[2]) # <<0, 0>>

\* C6: when the overlapping pair is already separating (velocityAlongNormal
\* > 0) checkCollision leaves the linear and angular velocities of both
\* bodies as they were and applies neither the impulse nor the friction.
SeparatingPairUntouched ==
    (JustCollided /\ lastCollision.velocityAlongNormal > 0) =>
        /\ SameVelocities(bodies[1], prevBodies[1])
        /\ SameVelocities(bodies[2], prevBodies[2])
        /\ ~lastCollision.impulse
        /\ ~lastCollision.frictionApplied

\* an overlapping, moving pair took the early exit and was pushed apart
SeparatingPairSeen ==
    /\ JustCollided
    /\ lastCollision.velocityAlongNormal > 0
    /\ lastCollision.separating
    /\ prevBodies[1].velocity # <<0, 0>>
    /\ bodies[1].position # prevBodies[1].position

\* the friction coefficient of the pair, from the bodies before the call
PairFriction == Mul(prevBodies[1].friction + prevBodies[2].friction, F(5, 10))

\* C7: the tangential impulse is never larger than |j * (fA + fB) / 2|, and
\* with both frictions 0 it changes no linear and no angular velocity.
CoulombClamp ==
    (JustCollided /\ lastCollision.frictionApplied) =>
        /\ Abs(lastCollision.jt) <= Abs(Mul(lastCollision.j, PairFriction))
        /\ (prevBodies[1].friction = 0 /\ prevBodies[2].friction = 0) =>
              /\ SameVelocities(bodies[1], lastCollision.afterNormal[1])
              /\ SameVelocities(bodies[2], lastCollision.afterNormal[2])

\* the clamp cut a tangential impulse down to a limit that is not zero
ClampActive ==
    /\ JustCollided
    /\ lastCollision.frictionApplied
    /\ lastCollision.jt # 0
    /\ Abs(lastCollision.jt) = Abs(Mul(lastCollision.j, PairFriction))
    /\ ~SameVelocities(bodies[1], lastCollision.afterNormal[1])

\* C8: no body of a mass or a radius that is not positive is ever
\* constructed and added.
ConstructionRejectsNonPositive ==
    \A i \in DOMAIN bodies : bodies[i].mass > 0 /\ bodies[i].radius > 0

IsStaticBody(b) == b.isStatic

\* C9: clearDynamicBodies leaves exactly the static bodies, in the order they
\* had; getDynamicBodyCount is the number of non-static bodies, and 0 right
\* after clearDynamicBodies.
ClearKeepsStatics ==
    /\ getDynamicBodyCount(bodies)
         = Cardinality({i \in DOMAIN bodies : ~bodies[i].isStatic})
    /\ lastOp = "clearDynamicBodies" =>
          /\ bodies = SelectSeq(prevBodies, IsStaticBody)
          /\ getDynamicBodyCount(bodies) = 0

\* two static bodies were kept in their order and a dynamic body inserted
\* before the second of them was removed
ClearedAroundStatics ==
    /\ lastOp = "clearDynamicBodies"
    /\ Len(bodies) = 2
    /\ Len(prevBodies) = 3
    /\ ~prevBodies[1].isStatic \/ ~prevBodies[2].isStatic
    /\ getDynamicBodyCount(prevBodies) = 1

\* the bodies whose circle, border included, holds the point
BodiesHolding(point) ==
    {i \in DOMAIN bodies :
        length(VSub(bodies[i].position, point)) <= bodies[i].radius}

\* C10: getBodyAt returns the earliest inserted body whose centre is at most
\* its radius away from the point, and the null pointer exactly when no body
\* holds the point.
HitTestFirstMatch ==
    hit.asked =>
        IF BodiesHolding(hit.point) = {} THEN hit.result = NULL
        ELSE \E i \in BodiesHolding(hit.point) :
                /\ \A k \in BodiesHolding(hit.point) : i <= k
                /\ hit.result = bodies[i].addr

\* the point is in two bodies and the one inserted first was returned
HitInTwoBodies ==
    /\ hit.asked
    /\ Cardinality(BodiesHolding(hit.point)) >= 2
    /\ hit.result # NULL
    /\ hit.result = bodies[1].addr
    /\ 1 \in BodiesHolding(hit.point)

\* the circle of b reaches over a wall of the world
CrossesWall(b) ==
    \/ b.position[1] - b.radius < 0
    \/ b.position[1] + b.radius > world.width
    \/ b.position[2] - b.radius < 0
    \/ b.position[2] + b.radius > world.height

\* the dynamic bodies the integration of the last step moved over a wall
WallCrossers ==
    {i \in DOMAIN prevBodies :
        ~prevBodies[i].isStatic /\ CrossesWall(update(prevBodies[i], dt))}

\* C11: when the second loop of update has resolved the walls, one impact
\* event has been sent to the particle system for each dynamic body that
\* crossed a wall in this step.
WallImpactEvent ==
    lastOp = "integrate" => Len(bursts) = Cardinality(WallCrossers)

\* C12: a checkCollision call sends one impact burst when it resolved an
\* overlap with a normal impulse that is not zero, and none otherwise (no
\* overlap, a separating pair, or a zero normal impulse); every intensity
\* sent lies in [0, 1].
ImpactBurstEvent ==
    lastOp = "checkCollision" =>
        /\ Len(bursts) =
              IF lastCollision.overlap /\ lastCollision.impulse /\ lastCollision.j # 0
              THEN 1 ELSE 0
        /\ \A k \in DOMAIN bursts : 0 <= bursts[k] /\ bursts[k] <= Scale

\* C13: two bodies of mass 1, radius 10, restitution 1.0 and friction 0 with
\* no spin that meet head-on along x with speeds +v and -v (centres at x = 0
\* and x = 19 and v = 10 among them) leave checkCollision with the
\* velocities exchanged, -v and +v, and their centres at least 20 apart.
HeadOnExchange ==
    (JustCollided /\ prevBodies \in HeadOnPairs) =>
        /\ bodies[1].velocity = prevBodies[2].velocity
        /\ bodies[2].velocity = prevBodies[1].velocity
        /\ CentreDistance >= 200000

\* the call on centres x = 0 and x = 19 with velocities +10 and -10
HeadOnScenario ==
    /\ JustCollided
    /\ prevBodies \in HeadOnPairs
    /\ prevBodies[1].position = P(0, 0)
    /\ prevBodies[2].position = P(190000, 0)
    /\ prevBodies[1].velocity = P(100000, 0)
    /\ bodies[1].velocity = P(-100000, 0)
    /\ bodies[2].velocity = P(100000, 0)
    /\ lastCollision.impulse

---------------------------------------------------------------------------
(* One body falling to the floor of the engine's world                     *)

\* x of the centre (mid-world, and reaching over the left wall), height of
\* the lowest point of the circle above the floor, radii, velocities and
\* friction coefficients of the falling body; its restitution is 0.5
FallXs == {6000000, 5000}

FallGaps == {500, 3000, 10000, 50000}

FallRadii == {10000, 20000}

FallVelocities == {P(0, 0), P(0, 100000), P(0, 600000), P(-300000, 100000)}

FallFrictions == {0, F(2, 10)}

FallInit ==
    /\ \E x \in FallXs, gap \in FallGaps, r \in FallRadii, v \in FallVelocities,
          mu \in FallFrictions :
          bodies = << BodyWith(768, <<x, WorldHeight - r - gap>>, r, Scale, FALSE, v, 0,
                               F(5, 10), mu) >>
    /\ gravity = DefaultGravity
    /\ grid = SpatialGrid(WorldWidth, WorldHeight, CellSize)
    /\ potentialCollisions = <<>>
    /\ pc = "idle"
    /\ pairIdx = 1
    /\ dt = 0
    /\ stepCount = 0
    /\ addCount = 1
    /\ lastOp = "init"
    /\ prevBodies = <<>>
    /\ lastCollision = NoCollisionYet
    /\ hit = NoHit
    /\ world = [width |-> WorldWidth, height |-> WorldHeight]
    /\ bursts = <<>>
    /\ twin = <<>>
    /\ resolved = {}
    /\ app = MainLocals(FALSE, FALSE)
    /\ particleSystem = ParticleSystem

FallNext ==
    \/ \E deltaTime \in DtSet : UpdateForces(deltaTime)
    \/ UpdateIntegrate
    \/ UpdateBroadPhase
    \/ UpdateFinish

SpecFall == FallInit /\ [][FallNext]_vars

\* the body as the integration of the last step moved it, before the walls
Moved(i) == update(prevBodies[i], dt)

\* the vertical velocity with which the integration of the last step moved
\* body i
MoveVelocityY(i) == prevBodies[i].velocity[2] + Mul(prevBodies[i].acceleration[2], dt)

\* the second loop has just moved the single body across the bottom wall
CrossedFloor ==
    /\ lastOp = "integrate"
    /\ Len(bodies) = 1
    /\ ~bodies[1].isStatic
    /\ bodies[1].restitution = F(5, 10)
    /\ Moved(1).position[2] + Moved(1).radius > world.height

---------------------------------------------------------------------------
(* Two engines holding the same bodies at different addresses, stepped     *)
(* together                                                                *)

TwinBodyCount == 3

\* the addresses the bodies of the first engine may have, and two layouts
\* of the second engine
TwinAddrs == {768, 1280, 1536, 2048}

TwinLayouts == { <<768, 1280, 2048, 1536>>, <<2048, 1536, 1280, 768>> }

\* the body of template p at address a
BodyAt(p, a) ==
    [RigidBody(a, p.pos, p.r, p.m, p.stat) EXCEPT
        !.restitution = p.restitution, !.friction = p.friction]

TwinInit ==
    /\ \E ps \in [1 .. TwinBodyCount -> NewBodies], as \in [1 .. TwinBodyCount -> TwinAddrs],
          layout \in TwinLayouts :
          /\ \A i, k \in 1 .. TwinBodyCount : i # k => (ps[i] # ps[k] /\ as[i] # as[k])
          /\ bodies = [i \in 1 .. TwinBodyCount |-> BodyAt(ps[i], as[i])]
          /\ twin = [i \in 1 .. TwinBodyCount |-> BodyAt(ps[i], layout[i])]
    /\ resolved = {}
    /\ app = MainLocals(FALSE, FALSE)
    /\ particleSystem = ParticleSystem
    /\ gravity = DefaultGravity
    /\ grid = SpatialGrid(WorldWidth, WorldHeight, CellSize)
    /\ potentialCollisions = <<>>
    /\ pc = "idle"
    /\ pairIdx = 1
    /\ dt = 0
    /\ stepCount = 0
    /\ addCount = TwinBodyCount
    /\ lastOp = "init"
    /\ prevBodies = <<>>
    /\ lastCollision = NoCollisionYet
    /\ hit = NoHit
    /\ world = [width |-> WorldWidth, height |-> WorldHeight]
    /\ bursts = <<>>

\* update(deltaTime) called on both engines
TwinUpdate(deltaTime) ==
    /\ pc = "idle"
    /\ stepCount < MaxSteps
    /\ bodies' = UpdateAll(bodies, gravity, grid, deltaTime)
    /\ twin' = UpdateAll(twin, gravity, grid, deltaTime)
    /\ dt' = deltaTime
    /\ stepCount' = stepCount + 1
    /\ prevBodies' = bodies
    /\ lastOp' = "update"
    /\ UNCHANGED <<gravity, grid, potentialCollisions, pc, pairIdx, addCount,
                   lastCollision, hit, world, bursts, resolved, app, particleSystem>>

TwinNext == \E deltaTime \in DtSet : TwinUpdate(deltaTime)

SpecTwin == TwinInit /\ [][TwinNext]_vars

\* C15: two engines that hold bodies of the same physical state in the same
\* insertion order, at whatever addresses, hold bodies of the same positions
\* and velocities after each update with the same dt and gravity.
StepDeterminism ==
    /\ Len(bodies) = Len(twin)
    /\ \A i \in DOMAIN bodies :
          /\ bodies[i].position = twin[i].position
          /\ bodies[i].velocity = twin[i].velocity

\* cell c lies in the range of cells the bounding box of b covers
Covers(b, c) ==
    /\ getCellX(grid, b.position[1] - b.radius) <= c % grid.gridWidth
    /\ c % grid.gridWidth <= getCellX(grid, b.position[1] + b.radius)
    /\ getCellY(grid, b.position[2] - b.radius) <= c \div grid.gridWidth
    /\ c \div grid.gridWidth <= getCellY(grid, b.position[2] + b.radius)

\* every cell holds, once each, the addresses of exactly the bodies of bs
\* that cover it
GridHolds(bs) ==
    \A c \in DOMAIN grid.cells :
        /\ \A k, l \in DOMAIN grid.cells[c] :
              k # l => grid.cells[c][k] # grid.cells[c][l]
        /\ \A k \in DOMAIN grid.cells[c] : grid.cells[c][k] \in LiveAddrs(bs)
        /\ \A i \in DOMAIN bs :
              (\E k \in DOMAIN grid.cells[c] : grid.cells[c][k] = bs[i].addr)
                  <=> Covers(bs[i], c)

\* every dynamic body has been integrated and held inside the walls
AllIntegrated(bs) ==
    \A i \in DOMAIN bs :
        ~bs[i].isStatic =>
            /\ bs[i].acceleration = <<0, 0>>
            /\ bs[i].appliedForce = <<0, 0>>
            /\ ~CrossesWall(bs[i])

\* C16: inside one update, the integration starts from bodies that all carry
\* the gravity force; the grid is rebuilt from bodies that are all
\* integrated and held inside the walls, and the candidate pairs are fetched
\* from that grid; every checkCollision call comes after these, on a
\* candidate pair that is not a pair of two static bodies.
StepOrdering ==
    /\ pc = "integrate" => lastOp = "forces"
    /\ pc = "broad" => lastOp = "integrate"
    /\ pc = "narrow" => lastOp \in {"broad", "skip", "checkCollision"}
    /\ lastOp = "integrate" =>
          \A i \in DOMAIN prevBodies :
              ~prevBodies[i].isStatic =>
                  /\ prevBodies[i].appliedForce = VScale(gravity, prevBodies[i].mass)
                  /\ prevBodies[i].acceleration
                       = VDiv(VScale(gravity, prevBodies[i].mass), prevBodies[i].mass)
    /\ lastOp = "broad" =>
          /\ AllIntegrated(bodies)
          /\ GridHolds(bodies)
          /\ potentialCollisions = getPotentialCollisions(grid)
    /\ lastOp \in {"checkCollision", "skip"} =>
          /\ pc = "narrow"
          /\ pairIdx - 1 \in DOMAIN potentialCollisions
          /\ \A i \in DOMAIN prevBodies :
                ~prevBodies[i].isStatic => prevBodies[i].acceleration = <<0, 0>>
    /\ lastOp = "checkCollision" =>
          \E i \in DOMAIN prevBodies :
              /\ prevBodies[i].addr \in { potentialCollisions[pairIdx - 1][1],
                                          potentialCollisions[pairIdx - 1][2] }
              /\ ~prevBodies[i].isStatic

\* the second update of three bodies has reached its narrow phase: a pair of
\* two static bodies was skipped after a checkCollision call
SecondStepNarrow ==
    /\ stepCount = 2
    /\ lastOp = "skip"
    /\ pairIdx > 2
    /\ Len(bodies) = 3
    /\ gravity = DefaultGravity

\* C17: right after the integration every dynamic body has a zero
\* acceleration, angular acceleration, applied force, rotation and angular
\* velocity, whatever force it carried and whatever spin a collision had
\* given it; from then on only a checkCollision call changes its linear or
\* angular velocity before the next integration.
IntegrationReset ==
    /\ lastOp = "integrate" =>
          \A i \in DOMAIN bodies :
              ~bodies[i].isStatic =>
                  /\ bodies[i].acceleration = <<0, 0>>
                  /\ bodies[i].angularAcceleration = 0
                  /\ bodies[i].appliedForce = <<0, 0>>
                  /\ bodies[i].rotation = 0
                  /\ bodies[i].angularVelocity = 0
    /\ lastOp \in {"forces", "broad", "skip", "update", "setGravity", "getBodyAt", "addBody"} =>
          \A i \in DOMAIN prevBodies : SameVelocities(bodies[i], prevBodies[i])

\* a body that carried the gravity force and a spin and a velocity left by a
\* collision of the previous step has just been integrated
SpinWasReset ==
    /\ lastOp = "integrate"
    /\ stepCount = 2
    /\ \E i \in DOMAIN bodies :
          /\ prevBodies[i].angularVelocity # 0
          /\ prevBodies[i].velocity[1] # 0
          /\ prevBodies[i].appliedForce # <<0, 0>>
          /\ bodies[i].angularVelocity = 0

\* the distance between the centres that the last call went on with
CallDistance ==
    LET d0 == length(VSub(prevBodies[2].position, prevBodies[1].position))
    IN  IF d0 < F(1, 1000) THEN F(1, 1000) ELSE d0

\* the unit vector from the first body to the second that the last call
\* went on with
CallNormal ==
    IF length(VSub(prevBodies[2].position, prevBodies[1].position)) < F(1, 1000)
    THEN <<Scale, 0>>
    ELSE normalise(VSub(prevBodies[2].position, prevBodies[1].position))

\* the sum of the radii minus the distance of the last call
CallOverlap == prevBodies[1].radius + prevBodies[2].radius - CallDistance

\* C18: a call that found the pair overlapping moves two dynamic bodies
\* apart by overlap * 0.5 * 1.01 each along the normal, the first against it
\* and the second with it; moves the only dynamic body of a pair by
\* overlap * 1.01 and not the static one; and moves neither of two static
\* bodies.
CorrectionSplit ==
    JustCollided =>
        LET a == prevBodies[1]
            b == prevBodies[2]
            half == Mul(Mul(CallOverlap, F(5, 10)), F(101, 100))
            full == Mul(CallOverlap, F(101, 100))
        IN  /\ (~a.isStatic /\ ~b.isStatic) =>
                  /\ bodies[1].position = VSub(a.position, VScale(CallNormal, half))
                  /\ bodies[2].position = VAdd(b.position, VScale(CallNormal, half))
            /\ (~a.isStatic /\ b.isStatic) =>
                  /\ bodies[1].position = VSub(a.position, VScale(CallNormal, full))
                  /\ bodies[2].position = b.position
            /\ (a.isStatic /\ ~b.isStatic) =>
                  /\ bodies[1].position = a.position
                  /\ bodies[2].position = VAdd(b.position, VScale(CallNormal, full))
            /\ (a.isStatic /\ b.isStatic) =>
                  /\ bodies[1].position = a.position
                  /\ bodies[2].position = b.position

\* the only dynamic body of an overlapping pair was moved off a static one
\* whose centre is not at its own
LoneDynamicMoved ==
    /\ JustCollided
    /\ prevBodies[1].isStatic /\ ~prevBodies[2].isStatic
    /\ CallDistance > F(1, 1000)
    /\ CallOverlap > F(1, 100)
    /\ bodies[2].position # prevBodies[2].position

\* the last call found an overlap between centres closer than 0.001
DegenerateCall ==
    /\ JustCollided
    /\ length(VSub(prevBodies[2].position, prevBodies[1].position)) < F(1, 1000)

\* C19: a call on overlapping bodies whose centres are closer than 0.001
\* goes on with the distance 0.001 and the normal (1, 0), and moves the first
\* body, if dynamic, toward -X and the second, if dynamic, toward +X, their
\* y coordinates left alone.
DegeneratePush ==
    DegenerateCall =>
        /\ CallDistance = F(1, 1000)
        /\ lastCollision.normal = <<Scale, 0>>
        /\ ~prevBodies[1].isStatic =>
              /\ bodies[1].position[1] < prevBodies[1].position[1]
              /\ bodies[1].position[2] = prevBodies[1].position[2]
        /\ ~prevBodies[2].isStatic =>
              /\ bodies[2].position[1] > prevBodies[2].position[1]
              /\ bodies[2].position[2] = prevBodies[2].position[2]

--------------------------------------------------------------------------
(* One body driven through RigidBody's own functions                      *)

\* the world sizes handed to checkBoundaryCollision
BodyWorlds ==
    { [width |-> WorldWidth, height |-> WorldHeight],
      [width |-> 800 * Scale, height |-> 800 * Scale],
      [width |-> 500 * Scale, height |-> 600 * Scale] }

\* radius 10, and radius 400 whose diameter is the default world's height
BodyRadii == {10 * Scale, 400 * Scale}

\* centres inside, touching a wall from inside, over one wall, over two
\* walls of a corner, and far outside the world
BodyStarts ==
    { P(6000000, 4000000), P(100000, 100000), P(11900000, 7900000),
      P(50000, 7950000), P(11950000, 50000), P(-500000, -500000),
      P(20000000, 30000000), P(-30000000, 4000000) }

BodyVelocities == {P(0, 0), P(-300000, 100000), P(500000, -250000)}

BodyFrictions == {0, F(2, 10)}

BodyForces == {P(10000000, 0)}

BodyInit ==
    /\ \E pos \in BodyStarts, r \in BodyRadii, v \in BodyVelocities, mu \in BodyFrictions,
          st \in BOOLEAN :
          bodies = << BodyWith(768, pos, r, Scale, st, v, 0, F(8, 10), mu) >>
    /\ gravity = DefaultGravity
    /\ grid = SpatialGrid(WorldWidth, WorldHeight, CellSize)
    /\ potentialCollisions = <<>>
    /\ pc = "idle"
    /\ pairIdx = 1
    /\ dt = 0
    /\ stepCount = 0
    /\ addCount = 1
    /\ lastOp = "init"
    /\ prevBodies = <<>>
    /\ lastCollision = NoCollisionYet
    /\ hit = NoHit
    /\ world = [width |-> WorldWidth, height |-> WorldHeight]
    /\ bursts = <<>>
    /\ twin = <<>>
    /\ resolved = {}
    /\ app = MainLocals(FALSE, FALSE)
    /\ particleSystem = ParticleSystem

\* RigidBody::applyForce called on the body
BodyApplyForce(force) ==
    /\ stepCount < MaxSteps
    /\ bodies' = <<applyForce(bodies[1], force)>>
    /\ stepCount' = stepCount + 1
    /\ prevBodies' = bodies
    /\ lastOp' = "applyForce"
    /\ UNCHANGED <<gravity, grid, potentialCollisions, pc, pairIdx, dt, addCount,
                   lastCollision, hit, world, bursts, twin, resolved, app, particleSystem>>

\* RigidBody::update called on the body
BodyUpdate(deltaTime) ==
    /\ stepCount < MaxSteps
    /\ bodies' = <<update(bodies[1], deltaTime)>>
    /\ dt' = deltaTime
    /\ stepCount' = stepCount + 1
    /\ prevBodies' = bodies
    /\ lastOp' = "bodyUpdate"
    /\ UNCHANGED <<gravity, grid, potentialCollisions, pc, pairIdx, addCount,
                   lastCollision, hit, world, bursts, twin, resolved, app, particleSystem>>

\* RigidBody::checkBoundaryCollision called on the body with a world size
BodyCheckBoundary(w) ==
    /\ lastOp # "checkBoundary"
    /\ bodies' = <<checkBoundaryCollision(bodies[1], w.width, w.height)>>
    /\ world' = w
    /\ prevBodies' = bodies
    /\ lastOp' = "checkBoundary"
    /\ UNCHANGED <<gravity, grid, potentialCollisions, pc, pairIdx, dt, stepCount,
                   addCount, lastCollision, hit, bursts, twin, resolved, app, particleSystem>>

BodyNext ==
    \/ \E force \in BodyForces : BodyApplyForce(force)
    \/ \E deltaTime \in DtSet : BodyUpdate(deltaTime)
    \/ \E w \in BodyWorlds : BodyCheckBoundary(w)

SpecBody == BodyInit /\ [][BodyNext]_vars

\* the last call was checkBoundaryCollision on a dynamic body whose diameter
\* is at most the width and at most the height it was called with
FittingBodyChecked ==
    /\ lastOp = "checkBoundary"
    /\ ~prevBodies[1].isStatic
    /\ 2 * prevBodies[1].radius <= world.width
    /\ 2 * prevBodies[1].radius <= world.height

\* C20: checkBoundaryCollision leaves a dynamic body whose diameter fits the
\* world with its circle inside the world, wherever the body was; a body
\* whose circle crossed no wall keeps its position and velocity.
BoundaryClamp ==
    FittingBodyChecked =>
        /\ bodies[1].radius <= bodies[1].position[1]
        /\ bodies[1].position[1] <= world.width - bodies[1].radius
        /\ bodies[1].radius <= bodies[1].position[2]
        /\ bodies[1].position[2] <= world.height - bodies[1].radius
        /\ ~CrossesWall(prevBodies[1]) =>
              /\ bodies[1].position = prevBodies[1].position
              /\ bodies[1].velocity = prevBodies[1].velocity

\* a body that reached over the top wall and the right wall of a world its
\* diameter exactly fits in height has been put back inside
CornerClamped ==
    /\ FittingBodyChecked
    /\ 2 * prevBodies[1].radius = world.height
    /\ prevBodies[1].position[2] - prevBodies[1].radius < 0
    /\ prevBodies[1].position[1] + prevBodies[1].radius > world.width
    /\ bodies[1].position = <<world.width - bodies[1].radius, bodies[1].radius>>

--------------------------------------------------------------------------
(* Bodies inserted one by one into a SpatialGrid                          *)

\* the number of insert calls made on one grid
MaxInserts == 2

\* centres inside the world of GridConfigs, on a cell border, and outside
\* the world beyond each of its four sides and beyond a corner
InsertPositions ==
    { P(9000, 9000), P(20000, 10000), P(39000, 29000), P(-5000, 10000),
      P(52000, 14000), P(12000, -9000), P(12000, 47000), P(-20000, -20000),
      P(60000, 50000) }

InsertRadii == {3000, 12000}

InsertInit ==
    /\ bodies = <<>>
    /\ \E c \in GridConfigs : grid = SpatialGrid(c.w, c.h, c.cell)
    /\ gravity = DefaultGravity
    /\ potentialCollisions = <<>>
    /\ pc = "idle"
    /\ pairIdx = 1
    /\ dt = 0
    /\ stepCount = 0
    /\ addCount = 0
    /\ lastOp = "init"
    /\ prevBodies = <<>>
    /\ lastCollision = NoCollisionYet
    /\ hit = NoHit
    /\ world = [width |-> WorldWidth, height |-> WorldHeight]
    /\ bursts = <<>>
    /\ twin = <<>>
    /\ resolved = {}
    /\ app = MainLocals(FALSE, FALSE)
    /\ particleSystem = ParticleSystem

\* SpatialGrid::insert called with a body at a fresh address
GridInsert(pos, r) ==
    /\ addCount < MaxInserts
    /\ LET b == RigidBody(256 * (addCount + 3), pos, r, Scale, FALSE)
       IN  /\ bodies' = Append(bodies, b)
           /\ grid' = insert(grid, b)
    /\ addCount' = addCount + 1
    /\ prevBodies' = bodies
    /\ lastOp' = "insert"
    /\ UNCHANGED <<gravity, potentialCollisions, pc, pairIdx, dt, stepCount,
                   lastCollision, hit, world, bursts, twin, resolved, app, particleSystem>>

\* SpatialGrid::clear called on the grid
GridClear ==
    /\ lastOp = "insert"
    /\ bodies' = <<>>
    /\ grid' = clear(grid)
    /\ prevBodies' = bodies
    /\ lastOp' = "clear"
    /\ UNCHANGED <<gravity, potentialCollisions, pc, pairIdx, dt, stepCount, addCount,
                   lastCollision, hit, world, bursts, twin, resolved, app, particleSystem>>

InsertNext ==
    \/ \E pos \in InsertPositions, r \in InsertRadii : GridInsert(pos, r)
    \/ GridClear

SpecInsert == InsertInit /\ [][InsertNext]_vars

\* how many times cell c holds the address a
TimesInCell(c, a) ==
    Cardinality({k \in DOMAIN grid.cells[c] : grid.cells[c][k] = a})

\* C21: every inserted body is held exactly once by each cell of the range
\* getCellX(x - r) .. getCellX(x + r) by getCellY(y - r) .. getCellY(y + r)
\* and by no other cell; the range lies inside the grid, and every index
\* insert pushes at is an index of the cell array.
GridInsertion ==
    \A i \in DOMAIN bodies :
        /\ getCellX(grid, bodies[i].position[1] - bodies[i].radius) \in 0 .. grid.gridWidth - 1
        /\ getCellX(grid, bodies[i].position[1] + bodies[i].radius) \in 0 .. grid.gridWidth - 1
        /\ getCellY(grid, bodies[i].position[2] - bodies[i].radius) \in 0 .. grid.gridHeight - 1
        /\ getCellY(grid, bodies[i].position[2] + bodies[i].radius) \in 0 .. grid.gridHeight - 1
        /\ \A k \in DOMAIN getCellsForBody(grid, bodies[i]) :
              getCellsForBody(grid, bodies[i])[k] \in DOMAIN grid.cells
        /\ \A c \in DOMAIN grid.cells :
              TimesInCell(c, bodies[i].addr) = IF Covers(bodies[i], c) THEN 1 ELSE 0

\* a body whose circle lies wholly left of the world has been inserted and
\* is held by a cell of the first column
OutsideBodyStored ==
    /\ lastOp = "insert"
    /\ LET b == bodies[Len(bodies)]
       IN  /\ b.position[1] + b.radius < 0
           /\ \E c \in DOMAIN grid.cells :
                 c % grid.gridWidth = 0 /\ TimesInCell(c, b.addr) = 1

\* the addresses held by the cells of the grid
GridAddresses ==
    UNION { {grid.cells[c][k] : k \in DOMAIN grid.cells[c]} : c \in DOMAIN grid.cells }

\* C22: from the evaluation of getPotentialCollisions to the end of the
\* narrow phase every address held by a grid cell, and every address of a
\* candidate pair, is the address of a body the engine owns, whatever
\* addBody, clearDynamicBodies and update calls came before.
GridReferencesLive ==
    (pc = "narrow" \/ lastOp = "broad") =>
        /\ GridAddresses \subseteq LiveAddrs(bodies)
        /\ \A k \in DOMAIN potentialCollisions :
              /\ potentialCollisions[k][1] \in LiveAddrs(bodies)
              /\ potentialCollisions[k][2] \in LiveAddrs(bodies)

\* the narrow phase of an update made after clearDynamicBodies had removed a
\* body that the grid of the previous update held
NarrowAfterClear ==
    /\ pc = "narrow"
    /\ stepCount = 2
    /\ Len(bodies) < addCount
    /\ Len(potentialCollisions) >= 1
    /\ GridAddresses # {}

--------------------------------------------------------------------------
(* One body integrated many times: the motion trail                       *)

\* the number of update calls made on the body
TrailSteps == 34

\* the number of first calls that may take the short frame time
TrailMixedSteps == 5

\* a frame of 1/60 s and a frame as long as the trail interval
TrailDts == {F(1, 60), F(5, 100)}

TrailVelocities == {P(1000000, 0), P(-400000, 700000)}

TrailInit ==
    /\ \E v \in TrailVelocities, st \in BOOLEAN :
          bodies = << BodyWith(768, P(6000000, 4000000), 10 * Scale, Scale, st, v, 0,
                               F(6, 10), 0) >>
    /\ gravity = DefaultGravity
    /\ grid = SpatialGrid(WorldWidth, WorldHeight, CellSize)
    /\ potentialCollisions = <<>>
    /\ pc = "idle"
    /\ pairIdx = 1
    /\ dt = 0
    /\ stepCount = 0
    /\ addCount = 1
    /\ lastOp = "init"
    /\ prevBodies = <<>>
    /\ lastCollision = NoCollisionYet
    /\ hit = NoHit
    /\ world = [width |-> WorldWidth, height |-> WorldHeight]
    /\ bursts = <<>>
    /\ twin = <<>>
    /\ resolved = {}
    /\ app = MainLocals(FALSE, FALSE)
    /\ particleSystem = ParticleSystem

\* RigidBody::update called on the body
TrailUpdate(deltaTime) ==
    /\ stepCount < TrailSteps
    /\ deltaTime = F(1, 60) => stepCount < TrailMixedSteps
    /\ bodies' = <<update(bodies[1], deltaTime)>>
    /\ dt' = deltaTime
    /\ stepCount' = stepCount + 1
    /\ prevBodies' = bodies
    /\ lastOp' = "trailUpdate"
    /\ UNCHANGED <<gravity, grid, potentialCollisions, pc, pairIdx, addCount,
                   lastCollision, hit, world, bursts, twin, resolved, app, particleSystem>>

TrailNext == \E deltaTime \in TrailDts : TrailUpdate(deltaTime)

SpecTrail == TrailInit /\ [][TrailNext]_vars

\* the positions of the trail points, newest first
TrailPositions(b) == [k \in DOMAIN b.motionTrail |-> b.motionTrail[k].position]

\* C23: the trail never holds more than 30 points.  An update of a dynamic
\* body in which the timer plus the frame time has reached 0.05 restarts the
\* timer at 0 and puts the new position at the front, the former points
\* following in their order and the last of 30 former points dropped; any
\* other update adds the frame time to the timer and keeps the points.
BoundedTrail ==
    /\ \A i \in DOMAIN bodies : Len(bodies[i].motionTrail) <= 30
    /\ (lastOp = "trailUpdate" /\ ~prevBodies[1].isStatic) =>
          LET old == TrailPositions(prevBodies[1])
              new == TrailPositions(bodies[1])
          IN  IF prevBodies[1].trailTimer + dt >= F(5, 100)
              THEN /\ bodies[1].trailTimer = 0
                   /\ new = SubSeq(<<bodies[1].position>> \o old, 1,
                                   IF Len(old) < 30 THEN Len(old) + 1 ELSE 30)
              ELSE /\ bodies[1].trailTimer = prevBodies[1].trailTimer + dt
                   /\ new = old
    /\ (lastOp = "trailUpdate" /\ prevBodies[1].isStatic) => bodies[1] = prevBodies[1]

\* an update has pushed a point on a trail of 30 points and the oldest one
\* is gone
OldestPointDropped ==
    /\ lastOp = "trailUpdate"
    /\ Len(prevBodies[1].motionTrail) = 30
    /\ bodies[1].trailTimer = 0
    /\ Len(bodies[1].motionTrail) = 30
    /\ bodies[1].motionTrail[1].position = bodies[1].position
    /\ \A k \in DOMAIN bodies[1].motionTrail :
          bodies[1].motionTrail[k].position # prevBodies[1].motionTrail[30].position

--------------------------------------------------------------------------
(* One body's collision records                                           *)

\* the number of addCollisionInfo calls and of updateCollisionInfo calls
MaxInfoAdds == 3

MaxInfoUpdates == 4

\* frame times: 1/60 s, and times whose double divides the lifetime 1.0
InfoDts == {F(1, 60), F(1, 4), F(1, 2)}

InfoPoints == {P(10000, 0), P(0, 20000)}

InfoInit ==
    /\ \E st \in BOOLEAN :
          bodies = << RigidBody(768, P(6000000, 4000000), 10 * Scale, Scale, st) >>
    /\ gravity = DefaultGravity
    /\ grid = SpatialGrid(WorldWidth, WorldHeight, CellSize)
    /\ potentialCollisions = <<>>
    /\ pc = "idle"
    /\ pairIdx = 1
    /\ dt = 0
    /\ stepCount = 0
    /\ addCount = 0
    /\ lastOp = "init"
    /\ prevBodies = <<>>
    /\ lastCollision = NoCollisionYet
    /\ hit = NoHit
    /\ world = [width |-> WorldWidth, height |-> WorldHeight]
    /\ bursts = <<>>
    /\ twin = <<>>
    /\ resolved = {}
    /\ app = MainLocals(FALSE, FALSE)
    /\ particleSystem = ParticleSystem

\* RigidBody::addCollisionInfo called on the body
InfoAdd(point) ==
    /\ addCount < MaxInfoAdds
    /\ bodies' = <<addCollisionInfo(bodies[1], point, <<Scale, 0>>, F(5, 10))>>
    /\ addCount' = addCount + 1
    /\ prevBodies' = bodies
    /\ lastOp' = "addCollisionInfo"
    /\ UNCHANGED <<gravity, grid, potentialCollisions, pc, pairIdx, dt, stepCount,
                   lastCollision, hit, world, bursts, twin, resolved, app, particleSystem>>

\* RigidBody::updateCollisionInfo called on the body
InfoUpdate(deltaTime) ==
    /\ stepCount < MaxInfoUpdates
    /\ bodies' = <<updateCollisionInfo(bodies[1], deltaTime)>>
    /\ dt' = deltaTime
    /\ stepCount' = stepCount + 1
    /\ prevBodies' = bodies
    /\ lastOp' = "updateCollisionInfo"
    /\ UNCHANGED <<gravity, grid, potentialCollisions, pc, pairIdx, addCount,
                   lastCollision, hit, world, bursts, twin, resolved, app, particleSystem>>

InfoNext ==
    \/ \E point \in InfoPoints : InfoAdd(point)
    \/ \E deltaTime \in InfoDts : InfoUpdate(deltaTime)

SpecInfo == InfoInit /\ [][InfoNext]_vars

\* the indices of the records of body 1 before the last call whose lifetime
\* less twice the frame time is above 0
Survivors ==
    {k \in DOMAIN prevBodies[1].collisionInfos :
        prevBodies[1].collisionInfos[k].lifetime - 2 * dt > 0}

\* the k-th smallest element of the set S of numbers
RECURSIVE KthOf(_, _)
KthOf(S, k) ==
    LET least == CHOOSE x \in S : \A y \in S : x <= y
    IN  IF k = 1 THEN least ELSE KthOf(S \ {least}, k - 1)

\* C24: addCollisionInfo appends a record of lifetime 1.0 behind the records
\* present.  updateCollisionInfo(dt) leaves exactly the records whose
\* lifetime less 2 * dt is above 0, in their order, each with that lifetime
\* and otherwise as it was, so every stored lifetime is then in (0, 1].
InfoLifetime ==
    /\ lastOp = "addCollisionInfo" =>
          /\ Len(bodies[1].collisionInfos) = Len(prevBodies[1].collisionInfos) + 1
          /\ bodies[1].collisionInfos[Len(bodies[1].collisionInfos)].lifetime = Scale
          /\ SubSeq(bodies[1].collisionInfos, 1, Len(prevBodies[1].collisionInfos))
                = prevBodies[1].collisionInfos
    /\ lastOp = "updateCollisionInfo" =>
          /\ Len(bodies[1].collisionInfos) = Cardinality(Survivors)
          /\ \A k \in DOMAIN bodies[1].collisionInfos :
                /\ bodies[1].collisionInfos[k].lifetime > 0
                /\ bodies[1].collisionInfos[k].lifetime <= Scale
                /\ bodies[1].collisionInfos[k] =
                      [prevBodies[1].collisionInfos[KthOf(Survivors, k)] EXCEPT
                          !.lifetime = @ - 2 * dt]

\* updateCollisionInfo has removed a record whose lifetime came to exactly 0
\* and kept two later ones
ExpiredRecordRemoved ==
    /\ lastOp = "updateCollisionInfo"
    /\ Len(prevBodies[1].collisionInfos) = 3
    /\ prevBodies[1].collisionInfos[1].lifetime - 2 * dt = 0
    /\ Len(bodies[1].collisionInfos) = 2
    /\ bodies[1].collisionInfos[1].contactPoint # bodies[1].collisionInfos[2].contactPoint

\* C25: at the end of every update every dynamic body whose diameter fits
\* the world has its circle inside the world rectangle.
WorldContainment ==
    lastOp = "update" =>
        \A i \in DOMAIN bodies :
            ( /\ ~bodies[i].isStatic
              /\ 2 * bodies[i].radius <= world.width
              /\ 2 * bodies[i].radius <= world.height )
                => /\ bodies[i].radius <= bodies[i].position[1]
                   /\ bodies[i].position[1] <= world.width - bodies[i].radius
                   /\ bodies[i].radius <= bodies[i].position[2]
                   /\ bodies[i].position[2] <= world.height - bodies[i].radius

\* the centres of the bodies at the two addresses of pair are closer than
\* the sum of their radii
StillOverlapping(pair) ==
    LET a == bodies[Deref(bodies, pair[1])]
        b == bodies[Deref(bodies, pair[2])]
    IN  length(VSub(b.position, a.position)) < a.radius + b.radius

\* C26: at the end of every update no pair that checkCollision found
\* overlapping in that update, with at least one dynamic body, overlaps.
NoResidualOverlap ==
    lastOp = "update" =>
        \A pair \in resolved :
            ~( bodies[Deref(bodies, pair[1])].isStatic
               /\ bodies[Deref(bodies, pair[2])].isStatic )
                => ~StillOverlapping(pair)

--------------------------------------------------------------------------
(* update on three bodies that touch one another                          *)

\* offsets of the first and the third body from the middle one, which is
\* dynamic and of radius 10 like them: overlapping it from the left, and
\* overlapping it or clear of it on the right
PileLeftOffsets == {P(-120000, 0), P(-150000, 30000)}

PileRightOffsets == {P(120000, 0), P(140000, -20000), P(250000, 0)}

PileCentres == {P(6000000, 4000000), P(3050000, 7895000)}

PileVelocities == {P(0, 0), P(200000, 0)}

PileInit ==
    /\ \E c \in PileCentres, lo \in PileLeftOffsets, ro \in PileRightOffsets,
          v \in PileVelocities, sl \in BOOLEAN, sr \in BOOLEAN :
          bodies = << BodyWith(768, VAdd(c, lo), 10 * Scale, Scale, sl, <<0, 0>>, 0,
                               F(6, 10), 0),
                      BodyWith(1280, c, 10 * Scale, Scale, FALSE, v, 0, F(6, 10), 0),
                      BodyWith(2048, VAdd(c, ro), 10 * Scale, Scale, sr, <<0, 0>>, 0,
                               F(6, 10), 0) >>
    /\ gravity = DefaultGravity
    /\ grid = SpatialGrid(WorldWidth, WorldHeight, CellSize)
    /\ potentialCollisions = <<>>
    /\ pc = "idle"
    /\ pairIdx = 1
    /\ dt = 0
    /\ stepCount = 0
    /\ addCount = 3
    /\ lastOp = "init"
    /\ prevBodies = <<>>
    /\ lastCollision = NoCollisionYet
    /\ hit = NoHit
    /\ world = [width |-> WorldWidth, height |-> WorldHeight]
    /\ bursts = <<>>
    /\ twin = <<>>
    /\ resolved = {}
    /\ app = MainLocals(FALSE, FALSE)
    /\ particleSystem = ParticleSystem

PileNext ==
    \/ \E deltaTime \in DtSet : UpdateForces(deltaTime)
    \/ UpdateIntegrate
    \/ UpdateBroadPhase
    \/ UpdateNarrowSkip
    \/ UpdateNarrowPhase
    \/ UpdateFinish

SpecPile == PileInit /\ [][PileNext]_vars

--------------------------------------------------------------------------
(* The event loop of main                                                 *)

\* the number of left clicks and of Space presses that add bodies, and of
\* frames
MainClicks == 1

MainSpaces == 1

MainFrames == 1

\* the dynamic bodies main adds before the loop, and those one Space adds
InitialBodyCount == 15

SpaceBodyCount == 8

\* the address a new body is allocated at: the lowest 16-byte aligned
\* address from 768 on that no live body has
AllocAddress(bs) ==
    768 + 16 * (CHOOSE k \in 0 .. Len(bs) :
                   /\ 768 + 16 * k \notin LiveAddrs(bs)
                   /\ \A l \in 0 .. k - 1 : 768 + 16 * l \in LiveAddrs(bs))

\* the draws of radiusDist and massDist: radius 10 and mass 2 * (radius / 20)
DrawnRadius == 10 * Scale

DrawnMass == Mul(2 * Scale, Div(DrawnRadius, 20 * Scale))

\* the draws of posX and posY for the i-th body main adds before the loop
InitialPosition(i) == P((350 + 50 * (i - 1)) * Scale, (100 + 13 * (i - 1)) * Scale)

\* the draws of posX and posY for the i-th body of a Space press
SpacePosition(i) == P((360 + 90 * (i - 1)) * Scale, 250 * Scale)

\* the three static bodies main adds first
MainStatics(bs) ==
    LET b1 == RigidBody(AllocAddress(bs), P(500 * Scale, 500 * Scale), 35 * Scale,
                        10 * Scale, TRUE)
        b2 == RigidBody(AllocAddress(<<b1>>), P(700 * Scale, 400 * Scale), 30 * Scale,
                        10 * Scale, TRUE)
        b3 == RigidBody(AllocAddress(<<b1, b2>>), P(900 * Scale, 500 * Scale), 35 * Scale,
                        10 * Scale, TRUE)
    IN  <<b1, b2, b3>>

RECURSIVE InitialBodies(_, _)
\* the loop of main that adds the dynamic bodies, from the i-th on
InitialBodies(bs, i) ==
    IF i > InitialBodyCount THEN bs
    ELSE InitialBodies(
             Append(bs, RigidBody(AllocAddress(bs), InitialPosition(i), DrawnRadius,
                                  DrawnMass, FALSE)),
             i + 1)

\* a body made on a left click or a Space press: the sliders' values as
\* getRestitution and getFriction return them are set on it
NewBody(bs, ui, pos) ==
    [RigidBody(AllocAddress(bs), pos, DrawnRadius, DrawnMass, FALSE) EXCEPT
        !.restitution = ui.restitutionValue,
        !.friction = ui.frictionValue]

RECURSIVE SpaceBodies(_, _, _)
\* the loop of the Space key from the i-th body on
SpaceBodies(bs, ui, i) ==
    IF i > SpaceBodyCount THEN bs
    ELSE SpaceBodies(Append(bs, NewBody(bs, ui, SpacePosition(i))), ui, i + 1)

\* a press of the right mouse button
MousePressedRight(mousePos) ==
    /\ pc = "idle" /\ app.running
    /\ app' = IF isMouseOverUI(mousePos) THEN [app EXCEPT !.deref = NULL]
              ELSE IF getBodyAt(bodies, mousePos) # NULL
              THEN [app EXCEPT
                       !.draggedBody = getBodyAt(bodies, mousePos),
                       !.dragOffset =
                           VSub(bodies[Deref(bodies, getBodyAt(bodies, mousePos))].position,
                                mousePos),
                       !.deref = NULL]
              ELSE [app EXCEPT !.draggedBody = NULL, !.deref = NULL]
    /\ prevBodies' = bodies
    /\ lastOp' = "mousePressedRight"
    /\ UNCHANGED <<bodies, gravity, grid, potentialCollisions, pc, pairIdx, dt, stepCount,
                   addCount, lastCollision, hit, world, bursts, twin, resolved, particleSystem>>

\* a press of the left mouse button
MousePressedLeft(mousePos) ==
    /\ pc = "idle" /\ app.running
    /\ ~isMouseOverUI(mousePos) => app.clicks < MainClicks
    /\ bodies' = IF isMouseOverUI(mousePos) THEN bodies
                 ELSE Append(bodies, NewBody(bodies, app.ui, mousePos))
    /\ app' = [app EXCEPT !.ui = uiMousePressedLeft(@, mousePos),
                          !.clicks = IF isMouseOverUI(mousePos) THEN @ ELSE @ + 1,
                          !.deref = NULL]
    /\ prevBodies' = bodies
    /\ lastOp' = "mousePressedLeft"
    /\ UNCHANGED <<gravity, grid, potentialCollisions, pc, pairIdx, dt, stepCount,
                   addCount, lastCollision, hit, world, bursts, twin, resolved, particleSystem>>

\* a release of a mouse button
MouseReleased ==
    /\ pc = "idle" /\ app.running
    /\ app' = [app EXCEPT !.ui = uiMouseReleased(@), !.draggedBody = NULL, !.deref = NULL]
    /\ prevBodies' = bodies
    /\ lastOp' = "mouseReleased"
    /\ UNCHANGED <<bodies, gravity, grid, potentialCollisions, pc, pairIdx, dt, stepCount,
                   addCount, lastCollision, hit, world, bursts, twin, resolved, particleSystem>>

\* the velocity main sets on the dragged body
DragVelocity(b, mousePos, dragOffset) ==
    VScale(VSub(VAdd(mousePos, dragOffset), b.position), 10 * Scale)

\* a mouse move while draggedBody is null or points to a body the engine
\* owns
MouseMoved(mousePos) ==
    /\ pc = "idle" /\ app.running
    /\ app.draggedBody = NULL \/ app.draggedBody \in LiveAddrs(bodies)
    /\ bodies' = IF app.draggedBody # NULL
                    /\ ~bodies[Deref(bodies, app.draggedBody)].isStatic
                 THEN [bodies EXCEPT ![Deref(bodies, app.draggedBody)].velocity =
                          DragVelocity(bodies[Deref(bodies, app.draggedBody)], mousePos,
                                       app.dragOffset)]
                 ELSE bodies
    /\ app' = [app EXCEPT !.ui = uiMouseMoved(@, mousePos), !.deref = app.draggedBody]
    /\ prevBodies' = bodies
    /\ lastOp' = "mouseMoved"
    /\ UNCHANGED <<gravity, grid, potentialCollisions, pc, pairIdx, dt, stepCount,
                   addCount, lastCollision, hit, world, bursts, twin, resolved, particleSystem>>

\* a mouse move while draggedBody points to a body that was destroyed: the
\* read and the write through it either go unnoticed or stop the process
MouseMovedDangling(mousePos) ==
    /\ pc = "idle" /\ app.running
    /\ app.draggedBody # NULL /\ app.draggedBody \notin LiveAddrs(bodies)
    /\ \E goesOn \in BOOLEAN :
          app' = [app EXCEPT !.ui = uiMouseMoved(@, mousePos), !.deref = app.draggedBody,
                             !.running = goesOn]
    /\ prevBodies' = bodies
    /\ lastOp' = "mouseMoved"
    /\ UNCHANGED <<bodies, gravity, grid, potentialCollisions, pc, pairIdx, dt, stepCount,
                   addCount, lastCollision, hit, world, bursts, twin, resolved, particleSystem>>

\* the key Space
KeySpace ==
    /\ pc = "idle" /\ app.running
    /\ app.spaces < MainSpaces
    /\ bodies' = SpaceBodies(bodies, app.ui, 1)
    /\ app' = [app EXCEPT !.spaces = @ + 1, !.deref = NULL]
    /\ prevBodies' = bodies
    /\ lastOp' = "keySpace"
    /\ UNCHANGED <<gravity, grid, potentialCollisions, pc, pairIdx, dt, stepCount,
                   addCount, lastCollision, hit, world, bursts, twin, resolved, particleSystem>>

\* the key C
KeyC ==
    /\ pc = "idle" /\ app.running
    /\ bodies' = clearDynamicBodies(bodies)
    /\ app' = [app EXCEPT !.deref = NULL]
    /\ prevBodies' = bodies
    /\ lastOp' = "keyC"
    /\ UNCHANGED <<gravity, grid, potentialCollisions, pc, pairIdx, dt, stepCount,
                   addCount, lastCollision, hit, world, bursts, twin, resolved, particleSystem>>

\* the key G
KeyG ==
    /\ pc = "idle" /\ app.running
    /\ app' = [app EXCEPT !.gravityOn = ~@, !.deref = NULL]
    /\ gravity' = IF ~app.gravityOn THEN <<0, app.ui.gravityValue>> ELSE <<0, 0>>
    /\ prevBodies' = bodies
    /\ lastOp' = "keyG"
    /\ UNCHANGED <<bodies, grid, potentialCollisions, pc, pairIdx, dt, stepCount,
                   addCount, lastCollision, hit, world, bursts, twin, resolved, particleSystem>>

\* the end of an iteration of the loop: physics.update, then ui.update with
\* the onGravityChange callback of main
Frame(deltaTime) ==
    /\ pc = "idle" /\ app.running
    /\ stepCount < MainFrames
    /\ bodies' = UpdateAll(bodies, gravity, grid, deltaTime)
    /\ grid' = updateSpatialGrid(grid,
                   [i \in DOMAIN bodies |->
                       IntegrateOn(ForcesOn(bodies[i], gravity, deltaTime), deltaTime)])
    /\ gravity' = IF GravityChanged(app.ui)
                  THEN <<0, app.ui.gravitySlider.currentValue>>
                  ELSE gravity
    /\ app' = [app EXCEPT !.ui = uiUpdate(@), !.deref = NULL]
    /\ dt' = deltaTime
    /\ stepCount' = stepCount + 1
    /\ prevBodies' = bodies
    /\ lastOp' = "frame"
    /\ UNCHANGED <<potentialCollisions, pc, pairIdx, addCount, lastCollision, hit,
                   world, bursts, twin, resolved, particleSystem>>

\* main before the loop, with the callbacks main registers
MainInit ==
    /\ bodies = InitialBodies(MainStatics(<<>>), 1)
    /\ app = MainLocals(FALSE, FALSE)
    /\ particleSystem = ParticleSystem
    /\ gravity = DefaultGravity
    /\ grid = SpatialGrid(WorldWidth, WorldHeight, CellSize)
    /\ potentialCollisions = <<>>
    /\ pc = "idle"
    /\ pairIdx = 1
    /\ dt = 0
    /\ stepCount = 0
    /\ addCount = 3 + InitialBodyCount
    /\ lastOp = "init"
    /\ prevBodies = <<>>
    /\ lastCollision = NoCollisionYet
    /\ hit = NoHit
    /\ world = [width |-> WorldWidth, height |-> WorldHeight]
    /\ bursts = <<>>
    /\ twin = <<>>
    /\ resolved = {}

\* points of the world: on the sixth dynamic body, on the second static
\* body, and on no body
DragPoints == {P(6000000, 1650000), P(7000000, 4000000), P(10000000, 7000000)}

DragNext ==
    \/ \E mousePos \in DragPoints : MousePressedRight(mousePos)
    \/ \E mousePos \in DragPoints : MousePressedLeft(mousePos)
    \/ MouseReleased
    \/ \E mousePos \in DragPoints : MouseMoved(mousePos)
    \/ \E mousePos \in DragPoints : MouseMovedDangling(mousePos)
    \/ KeySpace
    \/ KeyC
    \/ \E deltaTime \in DtSet : Frame(deltaTime)

SpecDrag == MainInit /\ [][DragNext]_vars

\* C27: the handle a mouse-move event dereferences is the address of a body
\* the engine owns.
DragHandleValid ==
    (lastOp = "mouseMoved" /\ app.deref # NULL) => app.deref \in LiveAddrs(bodies)

\* points of the window: on the handle of the gravity slider, on the handle
\* of the restitution slider, on the handle of the friction slider, and in
\* the world on no body
SliderPoints ==
    {P(1500000, 920000), P(1760000, 1720000), P(980000, 2520000), P(10000000, 7000000)}

SliderNext ==
    \/ \E mousePos \in SliderPoints : MousePressedLeft(mousePos)
    \/ MouseReleased
    \/ \E mousePos \in SliderPoints : MouseMoved(mousePos)
    \/ KeyG
    \/ \E deltaTime \in DtSet : Frame(deltaTime)

SpecSliders == MainInit /\ [][SliderNext]_vars

\* C28: while gravityOn is false the gravity of the engine is (0, 0).
GravityToggle == ~app.gravityOn => gravity = <<0, 0>>

\* C29: at the end of an iteration of the loop getRestitution and
\* getFriction return the current values of their sliders.
SliderValuesReach ==
    lastOp = "frame" =>
        /\ app.ui.restitutionValue = app.ui.restitutionSlider.currentValue
        /\ app.ui.frictionValue = app.ui.frictionSlider.currentValue

---------------------------------------------------------------------------
(* createImpactBurst and update called on one particle system              *)

MaxBursts == 3

MaxParticleUpdates == 2

\* bursts of intensity 1 made before the calls that are followed
ParticleFills == {0, 24}

\* intensities asking for 5, 10 and 20 particles
BurstIntensities == {F(1, 4), F(1, 2), Scale}

\* frame times: 1/60 s and 0.4 s
ParticleDts == {F(1, 60), F(4, 10)}

\* the point and the normal of the bursts
BurstPoint == P(6000000, 4000000)

BurstNormal == <<0, -Scale>>

RECURSIVE FilledParticles(_)
\* the vector after k bursts of intensity 1 on an empty system
FilledParticles(k) ==
    IF k = 0 THEN <<>>
    ELSE createImpactBurst(FilledParticles(k - 1), BurstPoint, BurstNormal, Scale)

ParticleInit ==
    /\ \E k \in ParticleFills :
          particleSystem = [ParticleSystem EXCEPT !.particles = FilledParticles(k)]
    /\ bodies = <<>>
    /\ gravity = DefaultGravity
    /\ grid = SpatialGrid(WorldWidth, WorldHeight, CellSize)
    /\ potentialCollisions = <<>>
    /\ pc = "idle"
    /\ pairIdx = 1
    /\ dt = 0
    /\ stepCount = 0
    /\ addCount = 0
    /\ lastOp = "init"
    /\ prevBodies = <<>>
    /\ lastCollision = NoCollisionYet
    /\ hit = NoHit
    /\ world = [width |-> WorldWidth, height |-> WorldHeight]
    /\ bursts = <<>>
    /\ twin = <<>>
    /\ resolved = {}
    /\ app = MainLocals(FALSE, FALSE)

\* ParticleSystem::createImpactBurst called on the system
ParticleBurst(intensity) ==
    /\ addCount < MaxBursts
    /\ particleSystem' =
          [ particles  |-> createImpactBurst(particleSystem.particles, BurstPoint,
                                             BurstNormal, intensity),
            sizeBefore |-> Len(particleSystem.particles),
            requested  |-> BurstCount(intensity) ]
    /\ addCount' = addCount + 1
    /\ lastOp' = "createImpactBurst"
    /\ UNCHANGED <<bodies, gravity, grid, potentialCollisions, pc, pairIdx, dt, stepCount,
                   prevBodies, lastCollision, hit, world, bursts, twin, resolved, app>>

\* ParticleSystem::update called on the system
ParticleUpdate(deltaTime) ==
    /\ stepCount < MaxParticleUpdates
    /\ particleSystem' =
          [particleSystem EXCEPT !.particles = particlesUpdate(@, deltaTime)]
    /\ dt' = deltaTime
    /\ stepCount' = stepCount + 1
    /\ lastOp' = "particlesUpdate"
    /\ UNCHANGED <<bodies, gravity, grid, potentialCollisions, pc, pairIdx, addCount,
                   prevBodies, lastCollision, hit, world, bursts, twin, resolved, app>>

ParticleNext ==
    \/ \E intensity \in BurstIntensities : ParticleBurst(intensity)
    \/ \E deltaTime \in ParticleDts : ParticleUpdate(deltaTime)

SpecParticles == ParticleInit /\ [][ParticleNext]_vars

\* C30: the system never holds more than 500 particles.  A
\* createImpactBurst call on a system of 500 particles adds none, and a call
\* that asks for more particles than the system has room for adds exactly as
\* many as there is room for; any other call adds as many as it asks for.
ParticleCap ==
    /\ Len(particleSystem.particles) <= 500
    /\ lastOp = "createImpactBurst" =>
          /\ particleSystem.sizeBefore = 500 => Len(particleSystem.particles) = 500
          /\ 500 - particleSystem.sizeBefore < particleSystem.requested =>
                Len(particleSystem.particles) = 500
          /\ 500 - particleSystem.sizeBefore >= particleSystem.requested =>
                Len(particleSystem.particles)
                    = particleSystem.sizeBefore + particleSystem.requested

\* a burst that asked for more particles than there was room for has filled
\* the system
BurstCutShort ==
    /\ lastOp = "createImpactBurst"
    /\ particleSystem.sizeBefore < 500
    /\ 500 - particleSystem.sizeBefore < particleSystem.requested
    /\ Len(particleSystem.particles) = 500

==========================================================================
